---------------------------- MODULE Spec2Model ----------------------------
(***************************************************************************)
(* A model of argocd-lint's lint orchestration: configuration resolution   *)
(* (internal/config), waiver filtering and baseline handling               *)
(* (internal/lint), and the bounded-concurrency runner (Runner.Run).       *)
(*                                                                         *)
(* Go strings that the code trims, lower-cases, concatenates, globs or     *)
(* compares are modelled as sequences of one-character strings, so that    *)
(* those conversions are computed and not assumed.                         *)
(***************************************************************************)
EXTENDS Integers, Sequences, FiniteSets, TLC

VARIABLES
    \* --- Config.Resolve (SpecResolve) ---
    c,            \* the Config receiver: [Rules, Overrides]
    rule,         \* the RuleMetadata argument
    filePath,     \* the filePath argument
    result,       \* the returned (ConfiguredRule, error), or "none" before the call
    \* --- applyWaivers (SpecWaiver) ---
    waivers,      \* cfg.Waivers
    wfindings,    \* the findings argument
    wnow,         \* time.Now() of the call
    wout,         \* the returned (filtered, extra), or "none" before the call
    \* --- the baseline file and Baseline (SpecBaseline, SpecCLI) ---
    bfile,        \* the baseline file on disk: [kind, data]
    baseline,     \* the *Baseline in memory: [nil, Entries, index]
    bwrite,       \* the last WriteBaseline call: its findings, and whether the
                  \* Baseline in memory was loaded from the file it wrote
    bcall,        \* the Filter call: its arguments and the three lists returned
    bnow,         \* the clock, in ticks
    \* --- Runner.Run (Spec) ---
    included,     \* the manifests Run lints, in discovery order
    opts,         \* Options and the runner's Config
    pc,           \* where each per-manifest goroutine stands
    sem,          \* number of slots of the semaphore channel in use
    errFlag,      \* the atomic errFlag
    firstErr,     \* firstErr
    cache,        \* the renderer's cache: key -> findings
    localFindings,\* each goroutine's localFindings
    runFindings,  \* the shared findings slice of Run
    report,       \* the returned (Report, error), or "none" before Run returns
    \* --- cli.Execute (SpecCLI) ---
    target,       \* the findings the manifests of the target produce
    runs,         \* the executions so far: flags, report and exit code of each
    \* --- the built-in rules on one document (SpecRule) ---
    doc,          \* the manifest being linted
    checked,      \* the findings of the rules loop for it, or "none" before
    \* --- Config.ApplyProfiles (SpecProfiles) ---
    pcfg,         \* the receiver: Rules and Threshold
    pnames,       \* the names argument
    presult,      \* the configuration and error after the call
    \* --- the kind filter of Run (SpecInclude) ---
    parsed,       \* the documents of the discovered files, in order
    toggles,      \* Options.Include..., and the working directory of the Runner
    kept,         \* the included slice, or "none" before the filter ran
    \* --- plugin discovery (SpecLoader) ---
    fsys,         \* the file system: what os.Stat finds at each path
    lpaths,       \* the paths handed to NewLoader
    lresult       \* what Load, DiscoverMetadata and `plugins list` returned

vars == <<c, rule, filePath, result, waivers, wfindings, wnow, wout,
          bfile, baseline, bwrite, bcall, bnow,
          included, opts, pc, sem, errFlag, firstErr, cache, localFindings, runFindings, report,
          target, runs,
          doc, checked, pcfg, pnames, presult, parsed, toggles, kept, fsys, lpaths, lresult>>

resolveVars == <<c, rule, filePath, result>>
waiverVars == <<waivers, wfindings, wnow, wout>>
baselineVars == <<bfile, baseline, bwrite, bcall, bnow>>
runVars == <<included, opts, pc, sem, errFlag, firstErr, cache, localFindings, runFindings, report>>
cliVars == <<target, runs>>
ruleVars == <<doc, checked>>
profileVars == <<pcfg, pnames, presult>>
includeVars == <<parsed, toggles, kept>>
loaderVars == <<fsys, lpaths, lresult>>
libVars == <<ruleVars, profileVars, includeVars, loaderVars>>
coreVars == <<resolveVars, waiverVars, baselineVars, runVars, cliVars>>

NoResult == [done |-> FALSE]

RuleIdle == doc = [idle |-> TRUE] /\ checked = NoResult
ProfileIdle == pcfg = [idle |-> TRUE] /\ pnames = <<>> /\ presult = NoResult
IncludeIdle == parsed = <<>> /\ toggles = [idle |-> TRUE] /\ kept = NoResult
LoaderIdle == fsys = [idle |-> TRUE] /\ lpaths = <<>> /\ lresult = NoResult
LibIdle == RuleIdle /\ ProfileIdle /\ IncludeIdle /\ LoaderIdle

\* Each specification below exercises one part of the program and leaves the
\* variables of the other parts at these values.

BaselineIdle ==
    /\ bfile = [kind |-> "absent", data |-> <<>>]
    /\ baseline = [nil |-> TRUE, Entries |-> <<>>, index |-> <<>>]
    /\ bwrite = NoResult
    /\ bcall = NoResult
    /\ bnow = 0

RunIdle ==
    /\ included = <<>>
    /\ opts = [idle |-> TRUE]
    /\ pc = <<>>
    /\ sem = 0
    /\ errFlag = FALSE
    /\ firstErr = <<>>
    /\ cache = <<>>
    /\ localFindings = <<>>
    /\ runFindings = <<>>
    /\ report = NoResult

CLIIdle ==
    /\ target = <<>>
    /\ runs = <<>>

-----------------------------------------------------------------------------
(* Strings                                                                 *)

\* The printable ASCII characters in byte order, starting at the space (the
\* quotes, the backtick and the backslash, which the model never uses, are
\* spelled out).
Ascii == <<" ","!","DQUOTE","#","$","%","&","SQUOTE","(",")","*","+",",","-",".","/",
           "0","1","2","3","4","5","6","7","8","9",":",";","<","=",">","?",
           "@","A","B","C","D","E","F","G","H","I","J","K","L","M","N","O",
           "P","Q","R","S","T","U","V","W","X","Y","Z","[","BSLASH","]","^","_",
           "BTICK","a","b","c","d","e","f","g","h","i","j","k","l","m","n","o",
           "p","q","r","s","t","u","v","w","x","y","z","{","|","}","~">>

\* The byte value of a character, minus 31 (Go compares strings bytewise): the
\* position of the character in Ascii, written out as a table.
CharCode ==
    (" " :> 1) @@ ("!" :> 2) @@ ("DQUOTE" :> 3) @@ ("#" :> 4) @@ ("$" :> 5) @@ ("%" :> 6) @@
    ("&" :> 7) @@ ("SQUOTE" :> 8) @@ ("(" :> 9) @@ (")" :> 10) @@ ("*" :> 11) @@ ("+" :> 12) @@
    ("," :> 13) @@ ("-" :> 14) @@ ("." :> 15) @@ ("/" :> 16) @@ ("0" :> 17) @@ ("1" :> 18) @@
    ("2" :> 19) @@ ("3" :> 20) @@ ("4" :> 21) @@ ("5" :> 22) @@ ("6" :> 23) @@ ("7" :> 24) @@
    ("8" :> 25) @@ ("9" :> 26) @@ (":" :> 27) @@ (";" :> 28) @@ ("<" :> 29) @@ ("=" :> 30) @@
    (">" :> 31) @@ ("?" :> 32) @@ ("@" :> 33) @@ ("A" :> 34) @@ ("B" :> 35) @@ ("C" :> 36) @@
    ("D" :> 37) @@ ("E" :> 38) @@ ("F" :> 39) @@ ("G" :> 40) @@ ("H" :> 41) @@ ("I" :> 42) @@
    ("J" :> 43) @@ ("K" :> 44) @@ ("L" :> 45) @@ ("M" :> 46) @@ ("N" :> 47) @@ ("O" :> 48) @@
    ("P" :> 49) @@ ("Q" :> 50) @@ ("R" :> 51) @@ ("S" :> 52) @@ ("T" :> 53) @@ ("U" :> 54) @@
    ("V" :> 55) @@ ("W" :> 56) @@ ("X" :> 57) @@ ("Y" :> 58) @@ ("Z" :> 59) @@ ("[" :> 60) @@
    ("BSLASH" :> 61) @@ ("]" :> 62) @@ ("^" :> 63) @@ ("_" :> 64) @@ ("BTICK" :> 65) @@ ("a" :> 66) @@
    ("b" :> 67) @@ ("c" :> 68) @@ ("d" :> 69) @@ ("e" :> 70) @@ ("f" :> 71) @@ ("g" :> 72) @@
    ("h" :> 73) @@ ("i" :> 74) @@ ("j" :> 75) @@ ("k" :> 76) @@ ("l" :> 77) @@ ("m" :> 78) @@
    ("n" :> 79) @@ ("o" :> 80) @@ ("p" :> 81) @@ ("q" :> 82) @@ ("r" :> 83) @@ ("s" :> 84) @@
    ("t" :> 85) @@ ("u" :> 86) @@ ("v" :> 87) @@ ("w" :> 88) @@ ("x" :> 89) @@ ("y" :> 90) @@
    ("z" :> 91) @@ ("{" :> 92) @@ ("|" :> 93) @@ ("}" :> 94) @@ ("~" :> 95)

\* Go's s < t on strings: bytewise lexicographic.
RECURSIVE StrLess(_, _)
StrLess(s, t) ==
    IF t = <<>> THEN FALSE
    ELSE IF s = <<>> THEN TRUE
    ELSE IF Head(s) = Head(t) THEN StrLess(Tail(s), Tail(t))
    ELSE CharCode[Head(s)] < CharCode[Head(t)]

\* 'A'..'Z' are the positions 34..59 of Ascii, 'a'..'z' lie 32 further on.
ToLowerChar(ch) ==
    IF CharCode[ch] >= 34 /\ CharCode[ch] <= 59 THEN Ascii[CharCode[ch] + 32] ELSE ch

\* strings.ToLower
ToLower(s) == [i \in 1..Len(s) |-> ToLowerChar(s[i])]

\* strings.TrimSpace (the space is the only white space of the model's alphabet)
RECURSIVE TrimLeft(_)
TrimLeft(s) == IF s # <<>> /\ Head(s) = " " THEN TrimLeft(Tail(s)) ELSE s
RECURSIVE TrimRight(_)
TrimRight(s) ==
    IF s # <<>> /\ s[Len(s)] = " " THEN TrimRight(SubSeq(s, 1, Len(s) - 1)) ELSE s
TrimSpace(s) == TrimRight(TrimLeft(s))

\* filepath.Match for patterns made of literals, '*' and '?': '*' matches any
\* run of non-separator characters, '?' one non-separator character.  The
\* model's patterns hold no '[' or backslash, so ErrBadPattern does not arise.
RECURSIVE Match(_, _)
Match(pattern, name) ==
    IF pattern = <<>> THEN name = <<>>
    ELSE IF Head(pattern) = "*"
    THEN \E k \in 0..Len(name) :
            /\ \A j \in 1..k : name[j] # "/"
            /\ Match(Tail(pattern), SubSeq(name, k + 1, Len(name)))
    ELSE IF Head(pattern) = "?"
    THEN name # <<>> /\ Head(name) # "/" /\ Match(Tail(pattern), Tail(name))
    ELSE name # <<>> /\ Head(name) = Head(pattern) /\ Match(Tail(pattern), Tail(name))

\* strconv / %d for a natural number
RECURSIVE Itoa(_)
Itoa(n) == IF n < 10 THEN <<Ascii[17 + n]>> ELSE Itoa(n \div 10) \o <<Ascii[17 + (n % 10)]>>

\* The elements of a sequence.
Range(s) == {s[i] : i \in 1..Len(s)}

\* All sequences over S of length at most n.
SeqsUpTo(S, n) == UNION {[1..k -> S] : k \in 0..n}

-----------------------------------------------------------------------------
(* Config.Resolve                                                          *)

SeverityInfo == <<"i","n","f","o">>
SeverityWarn == <<"w","a","r","n">>
SeverityError == <<"e","r","r","o","r">>

AR001 == <<"A","R","0","0","1">>
AR002 == <<"A","R","0","0","2">>

\* The nil error.
NoErr == <<>>

\* config.ParseSeverity: [sev, err]
ParseSeverity(value) ==
    LET norm == ToLower(TrimSpace(value))
    IN  IF norm = SeverityInfo THEN [sev |-> SeverityInfo, err |-> NoErr]
        ELSE IF norm = SeverityWarn THEN [sev |-> SeverityWarn, err |-> NoErr]
        ELSE IF norm = SeverityError THEN [sev |-> SeverityError, err |-> NoErr]
        ELSE IF norm = <<>>
        THEN [sev |-> <<>>, err |-> <<"e","m","p","t","y"," ","s","e","v","e","r","i","t","y">>]
        ELSE [sev |-> <<>>,
              err |-> <<"u","n","k","n","o","w","n"," ","s","e","v","e","r","i","t","y",":"," ">>
                      \o value]

\* The closure apply of Resolve: rc.Enabled is "nil", "true" or "false" (a *bool).
\* The enabled flag is assigned before the severity is parsed.
ResolveApply(res, rc) ==
    LET r1 == IF rc.Enabled # "nil" THEN [res EXCEPT !.Enabled = (rc.Enabled = "true")]
              ELSE res
    IN  IF rc.Severity # <<>>
        THEN LET p == ParseSeverity(rc.Severity)
             IN  IF p.err # NoErr THEN [r1 EXCEPT !.err = p.err]
                 ELSE [r1 EXCEPT !.Severity = p.sev]
        ELSE r1

\* The loop of Resolve over c.Overrides, from index i on.
RECURSIVE ResolveOverrides(_, _, _, _, _)
ResolveOverrides(overrides, i, rl, file, res) ==
    IF i > Len(overrides) THEN res
    ELSE LET override == overrides[i]
         IN  IF override.Pattern = <<>>
             THEN ResolveOverrides(overrides, i + 1, rl, file, res)
             ELSE IF Match(override.Pattern, file) /\ rl.ID \in DOMAIN override.Rules
             THEN LET r1 == ResolveApply(res, override.Rules[rl.ID])
                  IN  IF r1.err # NoErr THEN r1
                      ELSE ResolveOverrides(overrides, i + 1, rl, file, r1)
             ELSE ResolveOverrides(overrides, i + 1, rl, file, res)

\* A defect for comparison: the global entry is applied after the overrides.
ResolveGlobalLast(cfg, rl, file) ==
    LET r0 == [Metadata |-> rl, Severity |-> rl.DefaultSeverity,
               Enabled |-> rl.Enabled, err |-> NoErr]
        r1 == ResolveOverrides(cfg.Overrides, 1, rl, file, r0)
    IN  IF r1.err = NoErr /\ rl.ID \in DOMAIN cfg.Rules
        THEN ResolveApply(r1, cfg.Rules[rl.ID])
        ELSE r1

\* Config.Resolve: (ConfiguredRule, error) as one record.
Resolve(cfg, rl, file) ==
    LET r0 == [Metadata |-> rl, Severity |-> rl.DefaultSeverity,
               Enabled |-> rl.Enabled, err |-> NoErr]
        r1 == IF rl.ID \in DOMAIN cfg.Rules THEN ResolveApply(r0, cfg.Rules[rl.ID]) ELSE r0
    IN  IF r1.err # NoErr THEN r1
        ELSE ResolveOverrides(cfg.Overrides, 1, rl, file, r1)

-----------------------------------------------------------------------------
(* Inputs of the Resolve specification                                     *)

\* The longest Overrides list of the model.
MaxOverrides == 2

PatApps == <<"a","p","p","s","/","*",".","y","a","m","l">>
PatAnyDir == <<"*","/","a","p","p",".","y","a","m","l">>
FileApps == <<"a","p","p","s","/","a","p","p",".","y","a","m","l">>
FileManifests == <<"m","a","n","i","f","e","s","t","s","/","a","p","p",".","y","a","m","l">>

\* RuleConfig values: severity unset, set, set in another case with blanks,
\* unknown; enabled unset (nil), true, false.
RuleConfigPool ==
    { [Enabled |-> "nil",   Severity |-> <<>>],
      [Enabled |-> "nil",   Severity |-> SeverityInfo],
      [Enabled |-> "nil",   Severity |-> SeverityError],
      [Enabled |-> "false", Severity |-> <<>>],
      [Enabled |-> "true",  Severity |-> <<" ","W","a","r","n"," ">>],
      [Enabled |-> "false", Severity |-> <<"c","r","i","t","i","c","a","l">>] }

\* map[string]RuleConfig values: an entry for AR001, or only one for AR002.
RulesMapPool ==
    {(AR001 :> rc) : rc \in RuleConfigPool}
    \cup {(AR002 :> [Enabled |-> "false", Severity |-> SeverityInfo])}

EmptyRules == [id \in {} |-> [Enabled |-> "nil", Severity |-> <<>>]]

OverridePool ==
    {[Pattern |-> p, Rules |-> m] : p \in {PatApps, PatAnyDir, <<>>}, m \in RulesMapPool}

RuleMetaPool ==
    { [ID |-> AR001, DefaultSeverity |-> SeverityWarn, Enabled |-> TRUE],
      [ID |-> AR001, DefaultSeverity |-> SeverityError, Enabled |-> FALSE] }

ResolveIdle ==
    /\ c = [Rules |-> EmptyRules, Overrides |-> <<>>]
    /\ rule = [ID |-> AR001, DefaultSeverity |-> SeverityWarn, Enabled |-> TRUE]
    /\ filePath = FileApps
    /\ result = NoResult

WaiverIdle ==
    /\ waivers = <<>>
    /\ wfindings = <<>>
    /\ wnow = 0
    /\ wout = NoResult

InitResolve ==
    /\ c \in [Rules : RulesMapPool \cup {EmptyRules},
              Overrides : SeqsUpTo(OverridePool, MaxOverrides)]
    /\ rule \in RuleMetaPool
    /\ filePath \in {FileApps, FileManifests}
    /\ result = NoResult
    /\ WaiverIdle /\ BaselineIdle /\ RunIdle /\ CLIIdle /\ LibIdle

\* One call c.Resolve(rule, filePath).
CallResolve ==
    /\ ~result.done
    /\ result' = [done |-> TRUE, res |-> Resolve(c, rule, filePath)]
    /\ UNCHANGED <<c, rule, filePath, waiverVars, baselineVars, runVars, cliVars, libVars>>

NextResolve == CallResolve

SpecResolve == InitResolve /\ [][NextResolve]_vars

-----------------------------------------------------------------------------
(* C2                                                                      *)

\* The overrides entries that apply to (rule, filePath), by index.
ApplicableOverrides ==
    {i \in 1..Len(c.Overrides) :
        /\ Match(c.Overrides[i].Pattern, filePath)
        /\ rule.ID \in DOMAIN c.Overrides[i].Rules}

SetsSeverity(rc) == rc.Severity # <<>>
SetsEnabled(rc) == rc.Enabled # "nil"

Maximum(S) == CHOOSE x \in S : \A y \in S : y <= x

\* The severity the last applied entry that sets one gives, else the default.
LastSeverity ==
    LET ov == {i \in ApplicableOverrides : SetsSeverity(c.Overrides[i].Rules[rule.ID])}
    IN  IF ov # {} THEN ParseSeverity(c.Overrides[Maximum(ov)].Rules[rule.ID].Severity).sev
        ELSE IF rule.ID \in DOMAIN c.Rules /\ SetsSeverity(c.Rules[rule.ID])
        THEN ParseSeverity(c.Rules[rule.ID].Severity).sev
        ELSE rule.DefaultSeverity

LastEnabled ==
    LET ov == {i \in ApplicableOverrides : SetsEnabled(c.Overrides[i].Rules[rule.ID])}
    IN  IF ov # {} THEN c.Overrides[Maximum(ov)].Rules[rule.ID].Enabled = "true"
        ELSE IF rule.ID \in DOMAIN c.Rules /\ SetsEnabled(c.Rules[rule.ID])
        THEN c.Rules[rule.ID].Enabled = "true"
        ELSE rule.Enabled

\* The example of the claim: default warn, global error, one override that
\* sets info on apps/*.yaml.
ResolveExampleConfig ==
    /\ rule.DefaultSeverity = SeverityWarn
    /\ c.Rules = (AR001 :> [Enabled |-> "nil", Severity |-> SeverityError])
    /\ c.Overrides = <<[Pattern |-> PatApps,
                        Rules |-> (AR001 :> [Enabled |-> "nil", Severity |-> SeverityInfo])]>>

\* C2: a Resolve that returns no error returns the ordered fold of the default,
\* the global entry and the matching overrides in list order: the severity and
\* the enabled flag are those of the last applied entry that sets them.  In the
\* example configuration a matching file resolves to info and a non-matching
\* file to error.
C2_ResolveIsOrderedFold ==
    (result.done /\ result.res.err = NoErr) =>
        /\ result.res.Severity = LastSeverity
        /\ result.res.Enabled = LastEnabled
        /\ result.res.Metadata = rule
        /\ ResolveExampleConfig =>
              result.res.Severity = IF filePath = FileApps THEN SeverityInfo ELSE SeverityError

\* Witness: the example configuration resolved on the matching file.
C2_Witness ==
    /\ result.done
    /\ result.res.err = NoErr
    /\ ResolveExampleConfig
    /\ filePath = FileApps
    /\ result.res.Severity = SeverityInfo

-----------------------------------------------------------------------------
(* Time                                                                    *)

\* An instant is a number of ticks; a day has DayTicks ticks.  The calendar of
\* the model is January 2024: day d is the date 2024-01-dd, and its midnight
\* (UTC) is the instant d * DayTicks.
DayTicks == 2

TwoDigits(n) == <<Ascii[17 + (n \div 10)], Ascii[17 + (n % 10)]>>
DateText(d) == <<"2","0","2","4","-","0","1","-">> \o TwoDigits(d)
MidnightText == <<"T","0","0",":","0","0",":","0","0","Z">>
NoonText == <<"T","1","2",":","0","0",":","0","0","Z">>

IsDigit(ch) == CharCode[ch] >= 17 /\ CharCode[ch] <= 26
DigitValue(ch) == CharCode[ch] - 17

\* time.Parse("2006-01-02", value): [t, ok]
ParseDate(value) ==
    IF /\ Len(value) = 10
       /\ SubSeq(value, 1, 8) = <<"2","0","2","4","-","0","1","-">>
       /\ IsDigit(value[9]) /\ IsDigit(value[10])
       /\ 10 * DigitValue(value[9]) + DigitValue(value[10]) \in 1..31
    THEN [t |-> (10 * DigitValue(value[9]) + DigitValue(value[10])) * DayTicks, ok |-> TRUE]
    ELSE [t |-> 0, ok |-> FALSE]

\* time.Parse(time.RFC3339, value) for timestamps at midnight or noon UTC: [t, ok]
ParseRFC3339(value) ==
    IF Len(value) = 20 /\ ParseDate(SubSeq(value, 1, 10)).ok
       /\ SubSeq(value, 11, 20) \in {MidnightText, NoonText}
    THEN [t |-> ParseDate(SubSeq(value, 1, 10)).t
                + (IF SubSeq(value, 11, 20) = NoonText THEN DayTicks \div 2 ELSE 0),
          ok |-> TRUE]
    ELSE [t |-> 0, ok |-> FALSE]

\* t.Format("2006-01-02")
FormatDate(t) == DateText(t \div DayTicks)

\* t.Format(time.RFC3339) for an instant at midnight or noon
FormatRFC3339(t) ==
    FormatDate(t) \o (IF t % DayTicks = 0 THEN MidnightText ELSE NoonText)

-----------------------------------------------------------------------------
(* Waivers: internal/config/waiver.go, internal/lint/waiver_filter.go      *)

WAIVER_EXPIRED == <<"W","A","I","V","E","R","_","E","X","P","I","R","E","D">>
WAIVER_INVALID == <<"W","A","I","V","E","R","_","I","N","V","A","L","I","D">>
CategoryWaiver == <<"w","a","i","v","e","r">>

waiverExpiredMeta ==
    [ID |-> WAIVER_EXPIRED, DefaultSeverity |-> SeverityWarn,
     Category |-> CategoryWaiver, Enabled |-> TRUE]

waiverInvalidMeta ==
    [ID |-> WAIVER_INVALID, DefaultSeverity |-> SeverityWarn,
     Category |-> CategoryWaiver, Enabled |-> TRUE]

\* Waiver.ExpiryTime: [t, err]
ExpiryTime(w) ==
    LET value == TrimSpace(w.Expires)
    IN  IF value = <<>>
        THEN [t |-> 0,
              err |-> <<"e","x","p","i","r","e","s"," ","i","s"," ","r","e","q","u","i","r","e","d">>]
        ELSE IF ParseRFC3339(value).ok THEN [t |-> ParseRFC3339(value).t, err |-> NoErr]
        ELSE IF ParseDate(value).ok THEN [t |-> ParseDate(value).t, err |-> NoErr]
        ELSE [t |-> 0,
              err |-> <<"i","n","v","a","l","i","d"," ","e","x","p","i","r","e","s"," ",
                        "f","o","r","m","a","t"," ">> \o value]

\* Waiver.Validate: the error, NoErr when the waiver is valid
Validate(w) ==
    IF TrimSpace(w.Rule) = <<>>
    THEN <<"r","u","l","e"," ","i","s"," ","r","e","q","u","i","r","e","d">>
    ELSE IF TrimSpace(w.File) = <<>>
    THEN <<"f","i","l","e"," ","p","a","t","t","e","r","n"," ","i","s"," ",
           "r","e","q","u","i","r","e","d">>
    ELSE IF TrimSpace(w.Reason) = <<>>
    THEN <<"r","e","a","s","o","n"," ","i","s"," ","r","e","q","u","i","r","e","d">>
    ELSE ExpiryTime(w).err

\* Waiver.Matches(finding, ruleID): finding is the finding's file path
WaiverMatches(w, finding, ruleID) ==
    IF ToLower(TrimSpace(ruleID)) # ToLower(TrimSpace(w.Rule)) THEN FALSE
    ELSE LET pattern == TrimSpace(w.File)
         IN  IF pattern = <<>> THEN FALSE ELSE Match(pattern, finding)

\* A types.Finding: the fields the lint pipeline reads or writes.  Column,
\* ResourceKind, HelpURL and Suggestions are carried along unread and left out.
newWaiverFinding(meta, file, message, severity) ==
    [RuleID |-> meta.ID, Message |-> message, Severity |-> severity, FilePath |-> file,
     Line |-> 0, ResourceName |-> <<>>, Category |-> meta.Category]

\* "waiver %d invalid: %v"
WaiverInvalidMsg(idx, err) ==
    <<"w","a","i","v","e","r"," ">> \o Itoa(idx) \o <<" ","i","n","v","a","l","i","d",":"," ">> \o err

\* "waiver for %s on %s"
WaiverForPrefix(f) ==
    <<"w","a","i","v","e","r"," ","f","o","r"," ">> \o f.RuleID \o <<" ","o","n"," ">> \o f.FilePath

\* "waiver for %s on %s expired %s (%s)"
WaiverExpiredMsg(f, expires, reason) ==
    WaiverForPrefix(f) \o <<" ","e","x","p","i","r","e","d"," ">> \o FormatRFC3339(expires)
    \o <<" ","(">> \o reason \o <<")">>

\* "waiver for %s on %s missing reason"
WaiverMissingReasonMsg(f) ==
    WaiverForPrefix(f) \o <<" ","m","i","s","s","i","n","g"," ","r","e","a","s","o","n">>

\* The inner loop of applyWaivers for one waiver, from finding i on; st is
\* [waived, extra].
RECURSIVE WaiverInnerLoop(_, _, _, _, _, _)
WaiverInnerLoop(waiver, expires, findings, i, now, st) ==
    IF i > Len(findings) THEN st
    ELSE LET f == findings[i]
             next(s) == WaiverInnerLoop(waiver, expires, findings, i + 1, now, s)
         IN  IF st.waived[i] THEN next(st)
             ELSE IF ~WaiverMatches(waiver, f.FilePath, f.RuleID) THEN next(st)
             ELSE IF expires < now
             THEN next([st EXCEPT !.extra = Append(@,
                         newWaiverFinding(waiverExpiredMeta, f.FilePath,
                             WaiverExpiredMsg(f, expires, waiver.Reason), SeverityWarn))])
             ELSE IF TrimSpace(waiver.Reason) = <<>>
             THEN next([st EXCEPT !.extra = Append(@,
                         newWaiverFinding(waiverInvalidMeta, f.FilePath,
                             WaiverMissingReasonMsg(f), SeverityWarn))])
             ELSE next([st EXCEPT !.waived[i] = TRUE])

\* The outer loop of applyWaivers, from waiver idx on (idx counts from 1 here,
\* the message carries Go's index idx - 1).
RECURSIVE WaiverOuterLoop(_, _, _, _, _)
WaiverOuterLoop(ws, findings, idx, now, st) ==
    IF idx > Len(ws) THEN st
    ELSE LET waiver == ws[idx]
             e == ExpiryTime(waiver)
         IN  IF e.err # NoErr
             THEN WaiverOuterLoop(ws, findings, idx + 1, now,
                      [st EXCEPT !.extra = Append(@,
                          newWaiverFinding(waiverInvalidMeta, waiver.File,
                              WaiverInvalidMsg(idx - 1, e.err), SeverityWarn))])
             ELSE WaiverOuterLoop(ws, findings, idx + 1, now,
                      WaiverInnerLoop(waiver, e.t, findings, 1, now, st))

\* The findings whose index is not marked in waived, in order.
RECURSIVE KeepUnwaived(_, _, _)
KeepUnwaived(findings, waived, i) ==
    IF i > Len(findings) THEN <<>>
    ELSE IF waived[i] THEN KeepUnwaived(findings, waived, i + 1)
    ELSE <<findings[i]>> \o KeepUnwaived(findings, waived, i + 1)

\* A defect for comparison: the waived marks are kept per waiver, so only the
\* marks of the last waiver survive.
RECURSIVE WaiverMarksPerWaiver(_, _, _, _, _)
WaiverMarksPerWaiver(ws, findings, idx, now, st) ==
    IF idx > Len(ws) THEN st
    ELSE LET fresh == [st EXCEPT !.waived = [i \in 1..Len(findings) |-> FALSE]]
             one == WaiverOuterLoop(<<ws[idx]>>, findings, 1, now, fresh)
         IN  WaiverMarksPerWaiver(ws, findings, idx + 1, now, one)

applyWaiversLastOnly(ws, findings, now) ==
    IF Len(ws) = 0 THEN [filtered |-> findings, extra |-> <<>>]
    ELSE LET st == WaiverMarksPerWaiver(ws, findings, 1, now,
                       [waived |-> [i \in 1..Len(findings) |-> FALSE], extra |-> <<>>])
         IN  [filtered |-> KeepUnwaived(findings, st.waived, 1), extra |-> st.extra]

\* applyWaivers(cfg, findings, ruleIndex) with ws = cfg.Waivers and now =
\* time.Now(); ruleIndex is not read by the function.  Returns (filtered, extra).
applyWaivers(ws, findings, now) ==
    IF Len(ws) = 0 THEN [filtered |-> findings, extra |-> <<>>]
    ELSE LET st == WaiverOuterLoop(ws, findings, 1, now,
                       [waived |-> [i \in 1..Len(findings) |-> FALSE], extra |-> <<>>])
         IN  [filtered |-> KeepUnwaived(findings, st.waived, 1), extra |-> st.extra]

-----------------------------------------------------------------------------
(* The ordering of findings: internal/lint/runner.go                       *)

\* The less function of both sort.SliceStable calls of Run: by file path, then
\* line, then rule ID, then message.
FindingLess(a, b) ==
    IF a.FilePath = b.FilePath
    THEN IF a.Line = b.Line
         THEN IF a.RuleID = b.RuleID
              THEN StrLess(a.Message, b.Message)
              ELSE StrLess(a.RuleID, b.RuleID)
         ELSE a.Line < b.Line
    ELSE StrLess(a.FilePath, b.FilePath)

\* x put into the sorted list behind every element that is not greater.
RECURSIVE InsertStable(_, _)
InsertStable(sorted, x) ==
    IF sorted = <<>> THEN <<x>>
    ELSE IF FindingLess(x, Head(sorted)) THEN <<x>> \o sorted
    ELSE <<Head(sorted)>> \o InsertStable(Tail(sorted), x)

\* sort.SliceStable(findings, less): the stable sort is the one order in which
\* equal elements keep their input order.
RECURSIVE SortStableFrom(_, _, _)
SortStableFrom(findings, i, acc) ==
    IF i > Len(findings) THEN acc
    ELSE SortStableFrom(findings, i + 1, InsertStable(acc, findings[i]))

SortStable(findings) == SortStableFrom(findings, 1, <<>>)

IsSorted(findings) ==
    \A i \in 1..(Len(findings) - 1) : ~FindingLess(findings[i + 1], findings[i])

-----------------------------------------------------------------------------
(* Inputs of the waiver specification                                      *)

\* The longest waiver list and the longest finding list of the model.
MaxWaivers == 2
MaxWaiverFindings == 2

Reason == <<"m","i","g","r","a","t","i","o","n">>
Day1 == <<"2","0","2","4","-","0","1","-","0","1">>
Day3 == <<"2","0","2","4","-","0","1","-","0","3">>
Day2Noon == <<"2","0","2","4","-","0","1","-","0","2","T","1","2",":","0","0",":","0","0","Z">>

\* Waivers: valid ones (two spellings of the rule, two patterns), expired ones,
\* and the ways of being invalid (no reason, no rule, no file pattern, no or
\* an unparsable expiry).
WaiverPool ==
    { [Rule |-> AR001, File |-> PatApps, Reason |-> Reason, Expires |-> Day3],
      [Rule |-> <<" ","a","r","0","0","1"," ">>, File |-> PatAnyDir, Reason |-> Reason,
       Expires |-> Day2Noon],
      [Rule |-> AR002, File |-> PatApps, Reason |-> Reason, Expires |-> Day3],
      [Rule |-> AR001, File |-> PatApps, Reason |-> Reason, Expires |-> Day1],
      [Rule |-> AR001, File |-> PatAnyDir, Reason |-> <<>>, Expires |-> Day1],
      [Rule |-> AR001, File |-> PatApps, Reason |-> <<" ">>, Expires |-> Day3],
      [Rule |-> <<>>, File |-> PatApps, Reason |-> Reason, Expires |-> Day3],
      [Rule |-> AR001, File |-> <<" ">>, Reason |-> Reason, Expires |-> Day3],
      [Rule |-> AR001, File |-> PatApps, Reason |-> Reason,
       Expires |-> <<"y","e","s","t","e","r","d","a","y">>],
      [Rule |-> AR002, File |-> PatApps, Reason |-> Reason, Expires |-> <<>>] }

RuleFinding(id, file, line) ==
    [RuleID |-> id, Message |-> <<"m">>, Severity |-> SeverityError, FilePath |-> file,
     Line |-> line, ResourceName |-> <<"d","e","m","o">>, Category |-> <<>>]

WaiverFindingPool ==
    { RuleFinding(AR001, FileApps, 1),
      RuleFinding(AR002, FileApps, 1),
      RuleFinding(AR001, FileManifests, 1) }

InitWaiver ==
    /\ waivers \in SeqsUpTo(WaiverPool, MaxWaivers)
    /\ wfindings \in {fs \in SeqsUpTo(WaiverFindingPool, MaxWaiverFindings) : IsSorted(fs)}
    /\ wnow \in {2 * DayTicks, 3 * DayTicks}
    /\ wout = NoResult
    /\ ResolveIdle /\ BaselineIdle /\ RunIdle /\ CLIIdle /\ LibIdle

\* One call applyWaivers(cfg, findings, ruleIndex).
CallApplyWaivers ==
    /\ ~wout.done
    /\ wout' = [done |-> TRUE, res |-> applyWaivers(waivers, wfindings, wnow)]
    /\ UNCHANGED <<waivers, wfindings, wnow, resolveVars, baselineVars, runVars, cliVars, libVars>>

NextWaiver == CallApplyWaivers

SpecWaiver == InitWaiver /\ [][NextWaiver]_vars

-----------------------------------------------------------------------------
(* C3, C4, C5                                                              *)

WIdx == 1..Len(waivers)
FIdx == 1..Len(wfindings)

\* Waiver k matches finding i: same rule ID, file glob matches.
WMatches(k, i) == WaiverMatches(waivers[k], wfindings[i].FilePath, wfindings[i].RuleID)

\* Waiver k has an expiry, and it lies in the past.
WExpired(k) == ExpiryTime(waivers[k]).err = NoErr /\ ExpiryTime(waivers[k]).t < wnow

\* Waiver k is valid and unexpired.
WGood(k) == Validate(waivers[k]) = NoErr /\ ~WExpired(k)

Removed(i) == wfindings[i] \notin Range(wout.res.filtered)

ExtrasOf(id) == {j \in 1..Len(wout.res.extra) : wout.res.extra[j].RuleID = id}

IsPrefix(p, s) == Len(p) <= Len(s) /\ SubSeq(s, 1, Len(p)) = p

\* The diagnostics that name finding i: "waiver for <rule> on <file> ...".
DiagnosticsFor(i) ==
    {j \in 1..Len(wout.res.extra) :
        IsPrefix(WaiverForPrefix(wfindings[i]) \o <<" ">>, wout.res.extra[j].Message)}

\* C3 as claimed: a finding that only expired waivers match stays, and the
\* WAIVER_EXPIRED diagnostics are one per (expired waiver, finding it matches),
\* whatever else is configured.
C3_ExpiredAlwaysReported ==
    wout.done =>
        /\ \A i \in FIdx :
              ((\E k \in WIdx : WMatches(k, i)) /\ (\A k \in WIdx : WMatches(k, i) => WExpired(k)))
                  => ~Removed(i)
        /\ Cardinality(ExtrasOf(WAIVER_EXPIRED))
              = Cardinality({p \in WIdx \X FIdx : WExpired(p[1]) /\ WMatches(p[1], p[2])})

\* Finding i is matched by at least one waiver, and every waiver that matches it
\* is valid, unexpired and carries a reason.
Covered(i) ==
    /\ \E k \in WIdx : WMatches(k, i)
    /\ \A k \in WIdx : WMatches(k, i) => WGood(k)

\* C4: a finding matched only by valid, unexpired waivers is removed from the
\* active findings, each input finding is either kept once or removed, and no
\* WAIVER_EXPIRED or WAIVER_INVALID diagnostic names it, whether one waiver or
\* several overlapping ones match it.
C4_ValidWaiverSuppressesOnce ==
    wout.done =>
        /\ \A i \in FIdx : Covered(i) => (Removed(i) /\ DiagnosticsFor(i) = {})
        /\ Len(wout.res.filtered) = Cardinality({i \in FIdx : ~Removed(i)})

\* Witness: two valid waivers overlap on a finding, which is removed.
C4_Witness ==
    /\ wout.done
    /\ \E i \in FIdx :
          /\ Covered(i)
          /\ Cardinality({k \in WIdx : WMatches(k, i)}) = 2
          /\ Removed(i)
          /\ Len(wout.res.filtered) = Len(wfindings) - 1

\* Waiver k surfaces as a WAIVER_INVALID diagnostic: the one of its unparsable
\* expiry, or a missing-reason diagnostic of a finding it matches.
SurfacesInvalid(k) ==
    \E j \in ExtrasOf(WAIVER_INVALID) :
        \/ wout.res.extra[j].Message = WaiverInvalidMsg(k - 1, ExpiryTime(waivers[k]).err)
        \/ \E i \in FIdx :
              WMatches(k, i) /\ wout.res.extra[j].Message = WaiverMissingReasonMsg(wfindings[i])

\* C5 as claimed: every invalid waiver surfaces as WAIVER_INVALID, and a finding
\* is removed only when a valid waiver matches it.
C5_InvalidAlwaysSurfaces ==
    wout.done =>
        /\ \A k \in WIdx : Validate(waivers[k]) # NoErr => SurfacesInvalid(k)
        /\ \A i \in FIdx : Removed(i) => \E k \in WIdx : WGood(k) /\ WMatches(k, i)

-----------------------------------------------------------------------------
(* Baseline: internal/lint/runner.go, the baseline part of the package     *)

BASELINE_AGED == <<"B","A","S","E","L","I","N","E","_","A","G","E","D">>
CategoryBaseline == <<"b","a","s","e","l","i","n","e">>

baselineAgedMeta ==
    [ID |-> BASELINE_AGED, DefaultSeverity |-> SeverityWarn,
     Category |-> CategoryBaseline, Enabled |-> TRUE]

\* A BaselineEntry is [Rule, File, Introduced].  json.Marshal of one entry: the
\* object's members, "introduced" left out when empty (omitempty).
MarshalEntry(e) ==
    IF e.Introduced = <<>>
    THEN [rule |-> e.Rule, file |-> e.File]
    ELSE [rule |-> e.Rule, file |-> e.File, introduced |-> e.Introduced]

\* json.Unmarshal of one object into a BaselineEntry: a member that is absent
\* leaves the field empty.
UnmarshalEntry(o) ==
    [Rule |-> IF "rule" \in DOMAIN o THEN o.rule ELSE <<>>,
     File |-> IF "file" \in DOMAIN o THEN o.file ELSE <<>>,
     Introduced |-> IF "introduced" \in DOMAIN o THEN o.introduced ELSE <<>>]

baselineKey(file, ruleID) ==
    ToLower(TrimSpace(file)) \o <<"|">> \o ToLower(TrimSpace(ruleID))

\* m[k] = v on a Go map
MapPut(m, k, v) == [x \in (DOMAIN m) \cup {k} |-> IF x = k THEN v ELSE m[x]]

\* LoadBaseline, the loop over the entries: a later entry replaces an earlier
\* one with the same key.
RECURSIVE LoadIndex(_, _, _)
LoadIndex(entries, i, index) ==
    IF i > Len(entries) THEN index
    ELSE LoadIndex(entries, i + 1,
                   MapPut(index, baselineKey(entries[i].File, entries[i].Rule), entries[i]))

NilBaseline == [nil |-> TRUE, Entries |-> <<>>, index |-> <<>>]
EmptyBaseline == [nil |-> FALSE, Entries |-> <<>>, index |-> <<>>]

\* LoadBaseline(path) for a non-blank path whose file is `file`: [b, err].
\* The file is absent, has no bytes, has bytes that are no JSON array of
\* objects ("garbage"), or holds the objects `data`.
LoadBaseline(file) ==
    IF file.kind = "absent" THEN [b |-> EmptyBaseline, err |-> NoErr]
    ELSE IF file.kind = "empty" THEN [b |-> EmptyBaseline, err |-> NoErr]
    ELSE IF file.kind = "garbage"
    THEN [b |-> NilBaseline,
          err |-> <<"p","a","r","s","e"," ","b","a","s","e","l","i","n","e">>]
    ELSE LET entries == [i \in 1..Len(file.data) |-> UnmarshalEntry(file.data[i])]
         IN  [b |-> [nil |-> FALSE, Entries |-> entries,
                     index |-> LoadIndex(entries, 1, <<>>)],
              err |-> NoErr]

\* WriteBaseline, the loop over the findings: one entry for the first finding
\* of every key, stamped with today's date.
RECURSIVE WriteEntries(_, _, _, _, _)
WriteEntries(fs, i, seen, entries, today) ==
    IF i > Len(fs) THEN entries
    ELSE LET key == baselineKey(fs[i].FilePath, fs[i].RuleID)
         IN  IF key \in seen
             THEN WriteEntries(fs, i + 1, seen, entries, today)
             ELSE WriteEntries(fs, i + 1, seen \cup {key},
                               Append(entries, [Rule |-> fs[i].RuleID, File |-> fs[i].FilePath,
                                                Introduced |-> today]),
                               today)

\* WriteBaseline(path, findings) for a non-blank path at time now: the file
\* it leaves behind.
WriteBaseline(fs, now) ==
    LET entries == WriteEntries(fs, 1, {}, <<>>, FormatDate(now))
    IN  [kind |-> "json", data |-> [i \in 1..Len(entries) |-> MarshalEntry(entries[i])]]

\* "baseline entry for %s (%s) older than %d days"
BaselineAgedMsg(f, agingDays) ==
    <<"b","a","s","e","l","i","n","e"," ","e","n","t","r","y"," ","f","o","r"," ">>
    \o f.RuleID \o <<" ","(">> \o f.FilePath \o <<")">>
    \o <<" ","o","l","d","e","r"," ","t","h","a","n"," ">> \o Itoa(agingDays)
    \o <<" ","d","a","y","s">>

BaselineAgedFinding(f, agingDays) ==
    [RuleID |-> baselineAgedMeta.ID, Message |-> BaselineAgedMsg(f, agingDays),
     Severity |-> baselineAgedMeta.DefaultSeverity, FilePath |-> f.FilePath,
     Line |-> 0, ResourceName |-> <<>>, Category |-> baselineAgedMeta.Category]

\* introduced parses and lies before the threshold now - agingDays * 24h; the
\* threshold is the zero time, and nothing is aged, when agingDays <= 0.
IntroducedBefore(entry, agingDays, now) ==
    /\ agingDays > 0
    /\ ParseDate(entry.Introduced).ok
    /\ ParseDate(entry.Introduced).t < now - agingDays * DayTicks

\* Baseline.Filter, the loop over the findings
RECURSIVE FilterLoop(_, _, _, _, _, _)
FilterLoop(b, fs, i, agingDays, now, st) ==
    IF i > Len(fs) THEN st
    ELSE LET f == fs[i]
             key == baselineKey(f.FilePath, f.RuleID)
         IN  IF key \notin DOMAIN b.index
             THEN FilterLoop(b, fs, i + 1, agingDays, now,
                             [st EXCEPT !.result = Append(@, f)])
             ELSE FilterLoop(b, fs, i + 1, agingDays, now,
                    [st EXCEPT !.suppressed = Append(@, f),
                               !.aged = IF IntroducedBefore(b.index[key], agingDays, now)
                                        THEN Append(@, BaselineAgedFinding(f, agingDays))
                                        ELSE @])

\* Baseline.Filter(findings, agingDays) at time now: [result, aged, suppressed]
Filter(b, fs, agingDays, now) ==
    IF b.nil \/ DOMAIN b.index = {}
    THEN [result |-> fs, aged |-> <<>>, suppressed |-> <<>>]
    ELSE FilterLoop(b, fs, 1, agingDays, now,
                    [result |-> <<>>, aged |-> <<>>, suppressed |-> <<>>])

-----------------------------------------------------------------------------
(* Inputs of the baseline specification                                    *)

\* The longest finding list, the largest age threshold and the last day of
\* the clock (which starts on 3 January).
MaxBaselineFindings == 2
MaxAgingDays == 1
MaxDay == 5

RuleLower == <<"a","r","0","0","1">>
FileAB == <<"a","|","b">>
RuleC == <<"c">>
FileA == <<"a">>
RuleBC == <<"b","|","c">>

\* Two findings of one rule in one file, the same rule spelled in lower case,
\* a finding elsewhere, and two findings whose file and rule contain the "|".
BaselineFindingPool ==
    { RuleFinding(AR001, FileApps, 1),
      RuleFinding(AR001, FileApps, 2),
      RuleFinding(RuleLower, FileApps, 1),
      RuleFinding(AR002, FileManifests, 1),
      RuleFinding(RuleC, FileAB, 1),
      RuleFinding(RuleBC, FileA, 1) }

\* Baseline files as a user leaves them: none, one without bytes, one that
\* does not parse, and entry lists with an old date, without a date, with an
\* unparsable date, and with two entries of one key.
BaselineFilePool ==
    { [kind |-> "absent", data |-> <<>>],
      [kind |-> "empty", data |-> <<>>],
      [kind |-> "garbage", data |-> <<>>],
      [kind |-> "json", data |-> << [rule |-> AR001, file |-> FileApps, introduced |-> Day1] >>],
      [kind |-> "json", data |-> << [rule |-> AR001, file |-> FileApps] >>],
      [kind |-> "json", data |-> << [rule |-> AR001, file |-> FileApps,
                                     introduced |-> <<"s","o","o","n">>] >>],
      [kind |-> "json", data |-> << [rule |-> <<" ","a","r","0","0","1"," ">>, file |-> FileApps,
                                     introduced |-> Day1],
                                    [rule |-> AR001, file |-> FileApps, introduced |-> Day3] >>] }

InitBaseline ==
    /\ bfile \in BaselineFilePool
    /\ baseline = NilBaseline
    /\ bwrite = NoResult
    /\ bcall = NoResult
    /\ bnow = 3 * DayTicks
    /\ ResolveIdle /\ WaiverIdle /\ RunIdle /\ CLIIdle /\ LibIdle

\* Time passes.
Advance ==
    /\ ~bcall.done
    /\ bnow < MaxDay * DayTicks
    /\ bnow' = bnow + 1
    /\ UNCHANGED <<bfile, baseline, bwrite, bcall, resolveVars, waiverVars, runVars, cliVars, libVars>>

\* One call WriteBaseline(path, fs), before the file is loaded.
CallWriteBaseline ==
    /\ ~bcall.done /\ ~bwrite.done /\ baseline.nil
    /\ \E fs \in SeqsUpTo(BaselineFindingPool, MaxBaselineFindings) :
          /\ bfile' = WriteBaseline(fs, bnow)
          /\ bwrite' = [done |-> TRUE, F |-> fs, loaded |-> FALSE]
    /\ UNCHANGED <<baseline, bcall, bnow, resolveVars, waiverVars, runVars, cliVars, libVars>>

\* One call LoadBaseline(path); the Baseline stays nil when it fails.
CallLoadBaseline ==
    /\ ~bcall.done /\ baseline.nil
    /\ LoadBaseline(bfile).err = NoErr
    /\ baseline' = LoadBaseline(bfile).b
    /\ bwrite' = IF bwrite.done THEN [bwrite EXCEPT !.loaded = TRUE] ELSE bwrite
    /\ UNCHANGED <<bfile, bcall, bnow, resolveVars, waiverVars, runVars, cliVars, libVars>>

\* One call baseline.Filter(fs, agingDays).
CallFilter ==
    /\ ~bcall.done
    /\ \E fs \in SeqsUpTo(BaselineFindingPool, MaxBaselineFindings),
          agingDays \in (-1)..MaxAgingDays :
          bcall' = [done |-> TRUE, G |-> fs, agingDays |-> agingDays,
                    res |-> Filter(baseline, fs, agingDays, bnow)]
    /\ UNCHANGED <<bfile, baseline, bwrite, bnow, resolveVars, waiverVars, runVars, cliVars, libVars>>

NextBaseline == Advance \/ CallWriteBaseline \/ CallLoadBaseline \/ CallFilter

SpecBaseline == InitBaseline /\ [][NextBaseline]_vars

\* ---- C7 ----
\* e and f have the same file and the same rule, compared case-insensitively
\* after trimming.
SameFileAndRule(e, f) ==
    /\ ToLower(TrimSpace(e.File)) = ToLower(TrimSpace(f.FilePath))
    /\ ToLower(TrimSpace(e.Rule)) = ToLower(TrimSpace(f.RuleID))

HasEntryFor(f) == \E k \in 1..Len(baseline.Entries) : SameFileAndRule(baseline.Entries[k], f)

\* C7: Filter partitions its input: the suppressed list is the input findings
\* for which the baseline has an entry with the same file and rule (compared
\* case-insensitively after trimming), the remaining list is the other
\* findings, both in input order and unmodified; a nil or empty baseline
\* suppresses nothing.
C7_FilterPartitions ==
    bcall.done =>
        /\ bcall.res.suppressed = SelectSeq(bcall.G, HasEntryFor)
        /\ bcall.res.result = SelectSeq(bcall.G, LAMBDA f : ~HasEntryFor(f))

\* ---- C8 ----
\* the (rule, file) pair of g occurs in the list fs, compared as the baseline
\* compares entries (case-insensitively after trimming)
PairOccurs(g, fs) ==
    \E k \in 1..Len(fs) :
        SameFileAndRule([File |-> fs[k].FilePath, Rule |-> fs[k].RuleID], g)

\* C8: WriteBaseline(F), then LoadBaseline, then Filter(G) suppresses exactly
\* the findings of G whose (rule, file) pair occurs in F.
C8_BaselineRoundTrip ==
    (bcall.done /\ bwrite.done /\ bwrite.loaded) =>
        \A i \in 1..Len(bcall.G) :
            (bcall.G[i] \in Range(bcall.res.suppressed)) <=> PairOccurs(bcall.G[i], bwrite.F)

\* ---- C10 ----
\* positions of the suppressed findings that the entry under key k suppresses
SuppressedBy(k) ==
    {i \in 1..Len(bcall.res.suppressed) :
        baselineKey(bcall.res.suppressed[i].FilePath, bcall.res.suppressed[i].RuleID) = k}

\* positions of the BASELINE_AGED diagnostics reported for the entry under key k
AgedFor(k) ==
    {j \in 1..Len(bcall.res.aged) :
        \E i \in SuppressedBy(k) :
            /\ bcall.res.aged[j].FilePath = bcall.res.suppressed[i].FilePath
            /\ bcall.res.aged[j].Message =
                   BaselineAgedMsg(bcall.res.suppressed[i], bcall.agingDays)}

\* the entry under key k was introduced more than agingDays days ago
OldEntry(k) ==
    /\ bcall.agingDays > 0
    /\ ParseDate(baseline.index[k].Introduced).ok
    /\ ParseDate(baseline.index[k].Introduced).t + bcall.agingDays * DayTicks < bnow

\* C10: with a threshold N > 0 every entry introduced more than N days ago that
\* suppresses findings yields exactly one BASELINE_AGED diagnostic (severity
\* warn, at the suppressed file); every other entry, and every entry when
\* N <= 0, yields none.
C10_OneAgedPerOldEntry ==
    bcall.done =>
        /\ \A k \in DOMAIN baseline.index :
              IF OldEntry(k) /\ SuppressedBy(k) # {}
              THEN /\ Cardinality(AgedFor(k)) = 1
                   /\ \A j \in AgedFor(k) :
                         /\ bcall.res.aged[j].RuleID = BASELINE_AGED
                         /\ bcall.res.aged[j].Severity = SeverityWarn
              ELSE AgedFor(k) = {}
        /\ \A j \in 1..Len(bcall.res.aged) : \E k \in DOMAIN baseline.index : j \in AgedFor(k)

-----------------------------------------------------------------------------
(* Runner.Run: internal/lint/runner.go, with schema.Validator.Validate,    *)
(* render.Renderer.Render and rule.UniqueNameFindings                      *)
(*                                                                         *)
(* A manifest is [FilePath, Line, MetadataLine, Name] together with what   *)
(* the external checks find on it: schema ("valid", "invalid", or "error"  *)
(* when the schema library itself fails), kustomize (the overlay directory *)
(* of its source, <<>> without one), and Object, the parsed document.     *)

SCHEMA_APPLICATION == <<"S","C","H","E","M","A","_","A","P","P","L","I","C","A","T","I","O","N">>
RENDER_KUSTOMIZE == <<"R","E","N","D","E","R","_","K","U","S","T","O","M","I","Z","E">>
AR011 == <<"A","R","0","1","1">>

ruleApplication ==
    [Metadata |-> [ID |-> SCHEMA_APPLICATION, DefaultSeverity |-> SeverityError,
                   Category |-> <<"s","c","h","e","m","a">>, Enabled |-> TRUE],
     Severity |-> SeverityError, Enabled |-> TRUE]

kustomizeRuleMeta ==
    [ID |-> RENDER_KUSTOMIZE, DefaultSeverity |-> SeverityError,
     Category |-> <<"r","e","n","d","e","r">>, Enabled |-> TRUE]

ruleTargetRevisionPinned ==
    [ID |-> AR001, DefaultSeverity |-> SeverityWarn,
     Category |-> <<"b","e","s","t","-","p","r","a","c","t","i","c","e">>, Enabled |-> TRUE]

uniqueNameMeta ==
    [ID |-> AR011, DefaultSeverity |-> SeverityError,
     Category |-> <<"c","o","n","s","i","s","t","e","n","c","y">>, Enabled |-> TRUE]

\* FindingBuilder.NewFinding: b is the builder [Rule, FilePath, Line, ResourceName]
NewFinding(b, message, severity) ==
    [RuleID |-> b.Rule.Metadata.ID, Message |-> message,
     Severity |-> IF severity = <<>> THEN b.Rule.Severity ELSE severity,
     FilePath |-> b.FilePath, Line |-> b.Line, ResourceName |-> b.ResourceName,
     Category |-> b.Rule.Metadata.Category]

\* schema.Validator.Validate(m): [findings, err]
SchemaValidate(m) ==
    IF m.schema = "error"
    THEN [findings |-> <<>>,
          err |-> <<"s","c","h","e","m","a"," ","v","a","l","i","d","a","t","i","o","n"," ",
                    "e","r","r","o","r">>]
    ELSE IF m.schema = "valid" THEN [findings |-> <<>>, err |-> NoErr]
    ELSE [findings |->
            << NewFinding([Rule |-> ruleApplication, FilePath |-> m.FilePath, Line |-> m.Line,
                           ResourceName |-> m.Name],
                          <<"(","r","o","o","t",")",":"," ","s","p","e","c"," ","i","s"," ",
                            "r","e","q","u","i","r","e","d">>,
                          SeverityError) >>,
          err |-> NoErr]

\* renderCacheKey("kustomize", path, nil)
renderCacheKey(path) == <<"k","u","s","t","o","m","i","z","e","|">> \o path

\* Renderer.Render(m) up to the external command, for a manifest with at most
\* one kustomize source, against the cache cch: nothing to render ("none"),
\* an error of Config.Resolve ("err"), the cached findings ("hit"), or the
\* command has to run ("exec").
renderLookupWith(cr, cacheEnabled, m, cch) ==
    IF cr.err # NoErr THEN [kind |-> "err", err |-> cr.err]
    ELSE IF ~cr.Enabled THEN [kind |-> "none"]
    ELSE IF cacheEnabled /\ renderCacheKey(m.kustomize) \in DOMAIN cch
    THEN [kind |-> "hit", findings |-> cch[renderCacheKey(m.kustomize)]]
    ELSE [kind |-> "exec"]

renderLookup(cfg, cacheEnabled, m, cch) ==
    IF m.kustomize = <<>> THEN [kind |-> "none"]
    ELSE renderLookupWith(Resolve(cfg, kustomizeRuleMeta, m.FilePath), cacheEnabled, m, cch)

\* The overlay whose `kustomize build` fails.
BrokenOverlay == <<"o","v","e","r","l","a","y">>

\* renderKustomize after the command has run: the findings it returns and
\* stores in the cache.
renderKustomizeWith(cr, m) ==
    << NewFinding([Rule |-> cr, FilePath |-> m.FilePath, Line |-> m.MetadataLine,
                   ResourceName |-> m.Name],
                  <<"k","u","s","t","o","m","i","z","e"," ","b","u","i","l","d"," ",
                    "f","a","i","l","e","d"," ","i","n"," ">> \o m.kustomize
                  \o <<":"," ","e","x","i","t"," ","s","t","a","t","u","s"," ","1">>,
                  cr.Severity) >>

renderKustomize(cfg, m) ==
    IF m.kustomize # BrokenOverlay THEN <<>>
    ELSE renderKustomizeWith(Resolve(cfg, kustomizeRuleMeta, m.FilePath), m)

\* rule.checkRevision(builder, src), rev is the targetRevision of src
floatingRevisionPattern ==
    { <<"h","e","a","d">>, <<"l","a","t","e","s","t">>, <<"t","i","p">>, <<"m","a","i","n">>, <<"m","a","s","t","e","r">>, <<"t","r","u","n","k">> }

\* A defect for comparison: every finding takes the configured severity.
checkRevisionConfigured(builder, rev) ==
    IF rev = <<>> \/ rev = <<"H","E","A","D">> \/ ToLower(rev) \in floatingRevisionPattern
                 \/ "*" \in Range(rev)
    THEN << NewFinding(builder, <<"t","a","r","g","e","t","R","e","v","i","s","i","o","n">>, <<>>) >>
    ELSE <<>>

checkRevision(builder, rev) ==
    IF rev = <<>>
    THEN << NewFinding(builder, <<"t","a","r","g","e","t","R","e","v","i","s","i","o","n"," ","i","s"," ","e","m","p","t","y",";"," ","p","i","n"," ","t","o"," ","a"," ","t","a","g"," ","o","r"," ","c","o","m","m","i","t">>, SeverityWarn) >>
    ELSE IF rev = <<"H","E","A","D">>
    THEN << NewFinding(builder, <<"t","a","r","g","e","t","R","e","v","i","s","i","o","n"," ">> \o <<Ascii[8]>> \o <<"H","E","A","D">> \o <<Ascii[8]>> \o <<" ","i","s"," ","n","o","t"," ","i","m","m","u","t","a","b","l","e">>, SeverityError) >>
    ELSE (IF ToLower(rev) \in floatingRevisionPattern
          THEN << NewFinding(builder,
                             <<"t","a","r","g","e","t","R","e","v","i","s","i","o","n"," ">> \o <<Ascii[8]>> \o rev \o <<Ascii[8]>> \o <<" ","r","e","f","e","r","s"," ","t","o"," ","a"," ","m","u","t","a","b","l","e"," ","r","e","f">>,
                             SeverityError) >>
          ELSE <<>>)
         \o (IF "*" \in Range(rev)
             THEN << NewFinding(builder,
                                <<"t","a","r","g","e","t","R","e","v","i","s","i","o","n"," ">> \o <<Ascii[8]>> \o rev
                                \o <<Ascii[8]>> \o <<" ","c","o","n","t","a","i","n","s"," ","w","i","l","d","c","a","r","d",";"," ","p","r","e","f","e","r"," ","e","x","a","c","t"," ","t","a","g">>,
                                SeverityWarn) >>
             ELSE <<>>)

\* A source block of a manifest's Object: a key that is absent or no map
\* (getMap then returns the empty map), or a map with its targetRevision
\* (<<>> when the map has no such key, as getString returns "").
NoBlock == [declared |-> FALSE]
Block(rev) == [declared |-> TRUE, targetRevision |-> rev]
getRevision(src) == IF src.declared THEN src.targetRevision ELSE <<>>

\* The part of Object the rules read: spec.source, spec.sources,
\* spec.template.spec.source, spec.template.spec.sources, spec.project
\* (for an ApplicationSet the four places a project is looked for, in
\* order) and metadata.finalizers.
ObjectOf(source, sources, tsource, tsources, projects, finalizers) ==
    [source |-> source, sources |-> sources,
     template |-> [source |-> tsource, sources |-> tsources],
     projects |-> projects, finalizers |-> finalizers]

\* An Application with the one source block whose targetRevision is rev.
OneSource(rev) ==
    ObjectOf(Block(rev), <<>>, NoBlock, <<>>, << <<>>, <<>>, <<>>, <<>> >>, <<>>)

RECURSIVE checkSources(_, _, _)
checkSources(builder, sources, k) ==
    IF k > Len(sources) THEN <<>>
    ELSE checkRevision(builder, getRevision(sources[k]))
         \o checkSources(builder, sources, k + 1)

\* ruleTargetRevisionPinned().Applies and .Check
TargetRevisionApplies(m) == m.Kind \in {"Application", "ApplicationSet"}

TargetRevisionCheckWith(builder, m) ==
    IF m.Kind = "Application"
    THEN checkRevision(builder, getRevision(m.Object.source))
         \o checkSources(builder, m.Object.sources, 1)
    ELSE IF m.Kind = "ApplicationSet"
    THEN checkRevision(builder, getRevision(m.Object.template.source))
    ELSE <<>>

TargetRevisionCheck(m, cfg) ==
    TargetRevisionCheckWith([Rule |-> cfg, FilePath |-> m.FilePath, Line |-> m.MetadataLine,
                             ResourceName |-> m.Name], m)

NoFindings == [findings |-> <<>>, err |-> NoErr]

\* A defect for comparison: the enabled flag of the resolved rule is not read.
RuleFindingsUngated(cr, m) ==
    IF cr.err # NoErr THEN [findings |-> <<>>, err |-> cr.err]
    ELSE [findings |-> TargetRevisionCheck(m, cr), err |-> NoErr]

\* Run, the loop over r.rules for one manifest (the model registers rule
\* AR001): [findings, err]
RuleFindingsWith(cr, m) ==
    IF cr.err # NoErr THEN [findings |-> <<>>, err |-> cr.err]
    ELSE IF ~cr.Enabled THEN NoFindings
    ELSE [findings |-> TargetRevisionCheck(m, cr), err |-> NoErr]

RuleFindingsOf(cfg, m) ==
    IF ~TargetRevisionApplies(m) THEN NoFindings
    ELSE RuleFindingsWith(Resolve(cfg, ruleTargetRevisionPinned, m.FilePath), m)

\* A Rego plugin is [meta, applies, deny]: applies is what the module's
\* `applies` rule is ("absent", "startswith" for
\* applies { startswith(input.name, prefix) }, "false" for applies := false,
\* "error" for a rule whose evaluation fails); deny is what its `deny` rule
\* yields: "objects" (a list of objects, each a function from its keys to
\* their values), "scalar" (a value that is no object) or "error".

\* regoPlugin.AppliesTo()
PluginAppliesTo(p, m) == p.meta.AppliesTo = {} \/ m.Kind \in p.meta.AppliesTo

IsStrPrefix(pre, str) == Len(pre) <= Len(str) /\ SubSeq(str, 1, Len(pre)) = pre

\* p.appliesQuery.Eval(input): "error", "undefined" (no result), or the value
EvalApplies(p, m) ==
    IF p.applies.kind = "error" THEN "error"
    ELSE IF p.applies.kind = "false" THEN "false"
    ELSE IF IsStrPrefix(p.applies.prefix, m.Name) THEN "true" ELSE "undefined"

RawString(raw, key) == IF key \in DOMAIN raw THEN raw[key] ELSE <<>>

\* mapToFinding(raw, meta, man)
mapToFinding(raw, meta, man) ==
    [RuleID |-> IF RawString(raw, "rule_id") # <<>> THEN raw["rule_id"] ELSE meta.ID,
     Message |-> IF RawString(raw, "message") # <<>> THEN raw["message"]
                 ELSE <<"v","i","o","l","a","t","i","o","n">>,
     Severity |-> IF RawString(raw, "severity") # <<>> THEN ToLower(raw["severity"])
                  ELSE meta.DefaultSeverity,
     FilePath |-> IF RawString(raw, "file") # <<>> THEN raw["file"] ELSE man.FilePath,
     Line |-> IF "line" \in DOMAIN raw THEN raw["line"] ELSE man.Line,
     ResourceName |-> man.Name,
     Category |-> meta.Category]

RECURSIVE MapFindings(_, _, _, _)
MapFindings(objects, k, meta, man) ==
    IF k > Len(objects) THEN <<>>
    ELSE <<mapToFinding(objects[k], meta, man)>> \o MapFindings(objects, k + 1, meta, man)

\* regoPlugin.Check from the deny query on
PluginDeny(p, m) ==
    IF p.deny.kind = "error"
    THEN [findings |-> <<>>, err |-> <<"e","v","a","l","u","a","t","e"," ","d","e","n","y",":"," ","e","v","a","l","_","i","n","t","e","r","n","a","l","_","e","r","r","o","r">>]
    ELSE IF p.deny.kind = "scalar"
    THEN [findings |-> <<>>,
          err |-> <<"d","e","n","y"," ","q","u","e","r","y"," ","m","u","s","t"," ","r","e","t","u","r","n"," ","o","b","j","e","c","t","s"," ","o","r"," ","a","r","r","a","y"," ","o","f"," ","o","b","j","e","c","t","s",","," ","g","o","t"," ","s","t","r","i","n","g">>]
    ELSE [findings |-> MapFindings(p.deny.objects, 1, p.meta, m), err |-> NoErr]

\* A defect for comparison: the `applies` rule is not consulted.
PluginCheckIgnoringApplies(p, m) == PluginDeny(p, m)

\* regoPlugin.Check(ctx, m): [findings, err]
PluginCheck(p, m) ==
    IF p.applies.kind = "absent" THEN PluginDeny(p, m)
    ELSE IF EvalApplies(p, m) = "error"
    THEN [findings |-> <<>>, err |-> <<"e","v","a","l","u","a","t","e"," ","a","p","p","l","i","e","s",":"," ","e","v","a","l","_","i","n","t","e","r","n","a","l","_","e","r","r","o","r">>]
    ELSE IF EvalApplies(p, m) # "true" THEN NoFindings
    ELSE PluginDeny(p, m)

\* Run, what it fills in of a plugin finding f
NormalizeFinding(f, cfg, m) ==
    [f EXCEPT !.RuleID = IF @ = <<>> THEN cfg.Metadata.ID ELSE @,
              !.Severity = IF @ = <<>> THEN cfg.Severity ELSE @,
              !.FilePath = IF @ = <<>> THEN m.FilePath ELSE @,
              !.ResourceName = IF @ = <<>> THEN m.Name ELSE @,
              !.Category = IF @ = <<>> THEN cfg.Metadata.Category ELSE @]

RECURSIVE NormalizeFindings(_, _, _, _)
NormalizeFindings(fs, k, cfg, m) ==
    IF k > Len(fs) THEN <<>>
    ELSE <<NormalizeFinding(fs[k], cfg, m)>> \o NormalizeFindings(fs, k + 1, cfg, m)

PluginChecked(cr, res, m) ==
    IF res.err # NoErr THEN [findings |-> <<>>, err |-> res.err]
    ELSE [findings |-> NormalizeFindings(res.findings, 1, cr, m), err |-> NoErr]

\* Run, the body of the loop over r.plugins.Plugins() for one plugin and one
\* manifest: [findings, err]
PluginFindingsWith(cr, p, m) ==
    IF cr.err # NoErr THEN [findings |-> <<>>, err |-> cr.err]
    ELSE IF ~cr.Enabled THEN NoFindings
    ELSE PluginChecked(cr, PluginCheck(p, m), m)

PluginFindingsOf(cfg, p, m) ==
    IF ~PluginAppliesTo(p, m) THEN NoFindings
    ELSE PluginFindingsWith(Resolve(cfg, p.meta, m.FilePath), p, m)

\* Run, the loop over the plugins for one manifest
RECURSIVE PluginsLoop(_, _, _, _, _)

PluginsStep(cfg, ps, k, m, acc, r) ==
    IF r.err # NoErr THEN r ELSE PluginsLoop(cfg, ps, k + 1, m, acc \o r.findings)

PluginsLoop(cfg, ps, k, m, acc) ==
    IF k > Len(ps) THEN [findings |-> acc, err |-> NoErr]
    ELSE PluginsStep(cfg, ps, k, m, acc, PluginFindingsOf(cfg, ps[k], m))

\* Run, the loop over the manifests, the rules and then the plugins of each:
\* [findings, err]
RECURSIVE RulesLoop(_, _, _, _, _)

RulesPlugins(cfg, ps, ms, i, r) ==
    IF r.err # NoErr THEN r ELSE RulesLoop(cfg, ps, ms, i + 1, r.findings)

RulesStep(cfg, ps, ms, i, acc, r) ==
    IF r.err # NoErr THEN r
    ELSE RulesPlugins(cfg, ps, ms, i, PluginsLoop(cfg, ps, 1, ms[i], acc \o r.findings))

RulesLoop(cfg, ps, ms, i, acc) ==
    IF i > Len(ms) THEN [findings |-> acc, err |-> NoErr]
    ELSE RulesStep(cfg, ps, ms, i, acc, RuleFindingsOf(cfg, ms[i]))

\* dryrun.Validator.Validate: [findings, err].  In the model the external
\* command of the modes server and kubeconform succeeds on every file, which
\* leaves no finding.
DryRunValidate(o) ==
    IF ~o.Enabled \/ o.Mode = <<>> THEN NoFindings
    ELSE IF ToLower(o.Mode) \in { <<"s","e","r","v","e","r">>, <<"k","u","b","e","c","o","n","f","o","r","m">> } THEN NoFindings
    ELSE [findings |-> <<>>,
          err |-> <<"u","n","s","u","p","p","o","r","t","e","d"," ","d","r","y","-","r","u","n"," ","m","o","d","e"," ">> \o <<Ascii[3]>> \o o.Mode \o <<Ascii[3]>>]

\* rule.UniqueNameFindings: one AR011 finding for every manifest whose name
\* another manifest has too.  The Go map of names is walked in an order the
\* runtime picks; the manifest lists of the model hold at most one name that
\* occurs twice, so that order does not show.
UniqueNameRule(cr) ==
    IF cr.err # NoErr
    THEN [Metadata |-> uniqueNameMeta, Severity |-> uniqueNameMeta.DefaultSeverity,
          Enabled |-> uniqueNameMeta.Enabled, err |-> NoErr]
    ELSE cr

\* the manifests seen[name] of ms[i] number more than one
InNameGroup(ms, i) ==
    /\ ms[i].Kind = "Application"
    /\ \E j \in 1..Len(ms) :
          j # i /\ ms[j].Kind = "Application" /\ ms[j].Name = ms[i].Name

UniqueNameReport(cr, ms, i) ==
    << NewFinding([Rule |-> cr, FilePath |-> ms[i].FilePath, Line |-> ms[i].MetadataLine,
                   ResourceName |-> ms[i].Name],
                  <<"A","p","p","l","i","c","a","t","i","o","n"," ","n","a","m","e"," ">>
                  \o <<Ascii[8]>> \o ms[i].Name \o <<Ascii[8]>>
                  \o <<" ","i","s"," ","d","e","c","l","a","r","e","d"," ","i","n"," ",
                       "m","u","l","t","i","p","l","e"," ","m","a","n","i","f","e","s","t","s">>,
                  SeverityError) >>

\* A defect for comparison: the enabled flag of the resolved rule is not read.
UniqueNameFindingUngated(cr, ms, i) ==
    IF InNameGroup(ms, i) THEN UniqueNameReport(cr, ms, i) ELSE <<>>

UniqueNameFinding(cr, ms, i) ==
    IF InNameGroup(ms, i) /\ cr.Enabled THEN UniqueNameReport(cr, ms, i) ELSE <<>>

RECURSIVE UniqueNameFindings(_, _, _)
UniqueNameFindings(cfg, ms, i) ==
    IF i > Len(ms) THEN <<>>
    ELSE UniqueNameFinding(UniqueNameRule(Resolve(cfg, uniqueNameMeta, ms[i].FilePath)), ms, i)
         \o UniqueNameFindings(cfg, ms, i + 1)

\* Run from the first sort to the return statement: sort, applyWaivers, the
\* waiver diagnostics appended, Baseline.Filter, the aged diagnostics
\* appended, sort.  fs is the unsorted findings slice, b is opts.Baseline.
\* opts.Baseline.Filter(filtered, agingDays) when a baseline is given
RunFilter(b, filtered, agingDays, now) ==
    IF b.nil THEN [result |-> filtered, aged |-> <<>>, suppressed |-> <<>>]
    ELSE Filter(b, filtered, agingDays, now)

\* A defect for comparison: the second sort is missing.
RunUnsorted(bf) == [Findings |-> bf.result \o bf.aged, Suppressed |-> bf.suppressed]

\* the aged diagnostics appended, the second sort, the Report
RunSorted(bf) == [Findings |-> SortStable(bf.result \o bf.aged), Suppressed |-> bf.suppressed]

\* the waiver diagnostics appended to what applyWaivers left
RunWaived(w) == w.filtered \o w.extra

RunReport(ws, fs, b, agingDays, now) ==
    RunSorted(RunFilter(b, RunWaived(applyWaivers(ws, SortStable(fs), now)), agingDays, now))

\* runtime.NumCPU() of the machine
NumCPU == 2

\* maxParallel of Run
maxParallel ==
    IF opts.MaxParallel <= 0 THEN (IF NumCPU < 1 THEN 1 ELSE NumCPU) ELSE opts.MaxParallel

-----------------------------------------------------------------------------
(* Inputs of the Run specification                                         *)

\* The longest manifest list and the largest --max-parallel.
MaxManifests == 2
MaxParallelFlag == 2

Demo == <<"d","e","m","o">>

V1 == <<"v","1",".","2",".","3">>

\* Two applications in different files that deploy the same broken overlay,
\* a second document of the first file that is schema-invalid, has no
\* targetRevision and reuses the first one's name, a document the schema
\* library fails on, a third application of that name in the other file
\* tracking a branch, and a project of that name.
ManifestPool ==
    { [FilePath |-> FileApps, Line |-> 1, MetadataLine |-> 3, Name |-> Demo,
       Kind |-> "Application", schema |-> "valid", kustomize |-> BrokenOverlay,
       Object |-> OneSource(<<"H","E","A","D">>)],
      [FilePath |-> FileManifests, Line |-> 1, MetadataLine |-> 3, Name |-> <<"p","r","o","d">>,
       Kind |-> "Application", schema |-> "valid", kustomize |-> BrokenOverlay,
       Object |-> OneSource(V1)],
      [FilePath |-> FileApps, Line |-> 9, MetadataLine |-> 11, Name |-> Demo,
       Kind |-> "Application", schema |-> "invalid", kustomize |-> <<>>,
       Object |-> OneSource(<<>>)],
      [FilePath |-> FileManifests, Line |-> 9, MetadataLine |-> 11, Name |-> <<"w","e","b">>,
       Kind |-> "Application", schema |-> "error", kustomize |-> <<>>,
       Object |-> OneSource(V1)],
      [FilePath |-> FileManifests, Line |-> 17, MetadataLine |-> 19, Name |-> Demo,
       Kind |-> "Application", schema |-> "valid", kustomize |-> <<>>,
       Object |-> OneSource(<<"m","a","i","n">>)],
      [FilePath |-> FileManifests, Line |-> 25, MetadataLine |-> 27, Name |-> Demo,
       Kind |-> "AppProject", schema |-> "valid", kustomize |-> <<>>,
       Object |-> OneSource(<<>>)] }

RG001 == <<"R","G","0","0","1">>
RG002 == <<"R","G","0","0","2">>
PatManifests == <<"m","a","n","i","f","e","s","t","s","/","*">>
Fatal == <<"f","a","t","a","l">>

NilRule == [Enabled |-> "nil", Severity |-> <<>>]

\* The configurations with waivers and baselines: nothing set, or render
\* findings of apps/*.yaml lowered to warn.
RunConfigPool ==
    { [Rules |-> EmptyRules, Overrides |-> <<>>],
      [Rules |-> EmptyRules,
       Overrides |-> << [Pattern |-> PatApps,
                         Rules |-> (RENDER_KUSTOMIZE :>
                                      [Enabled |-> "nil", Severity |-> SeverityWarn])] >>] }

\* The configurations of the rules: AR001 and RG001 raised to error (the
\* README's example); AR001 disabled but for manifests/*, RG005 disabled,
\* AR011 and RG002 disabled for apps/*.yaml; an unknown severity for AR011, for AR001, for
\* RG001, and for the render rule of apps/*.yaml.
RuleConfigs ==
    { [Rules |-> (AR001 :> [NilRule EXCEPT !.Severity = SeverityError])
                 @@ (RG001 :> [NilRule EXCEPT !.Severity = SeverityError]),
       Overrides |-> <<>>],
      [Rules |-> (AR001 :> [NilRule EXCEPT !.Enabled = "false"])
                 @@ (<<"R","G","0","0","5">> :> [NilRule EXCEPT !.Enabled = "false"]),
       Overrides |-> << [Pattern |-> PatManifests,
                         Rules |-> (AR001 :> [NilRule EXCEPT !.Enabled = "true"])],
                        [Pattern |-> PatApps,
                         Rules |-> (AR011 :> [NilRule EXCEPT !.Enabled = "false"])
                                   @@ (RG002 :> [NilRule EXCEPT !.Enabled = "false"])] >>],
      [Rules |-> (AR011 :> [NilRule EXCEPT !.Severity = Fatal]), Overrides |-> <<>>],
      [Rules |-> (AR001 :> [NilRule EXCEPT !.Severity = Fatal]), Overrides |-> <<>>],
      [Rules |-> (RG001 :> [NilRule EXCEPT !.Severity = Fatal]), Overrides |-> <<>>],
      [Rules |-> EmptyRules,
       Overrides |-> << [Pattern |-> PatApps,
                         Rules |-> (RENDER_KUSTOMIZE :>
                                      [NilRule EXCEPT !.Severity = Fatal])] >>] }

\* The plugins: RG001 applies to applications, has no `applies` rule and
\* denies twice, once with a severity, a line and a rule_id of its own;
\* RG002 is the module of
\* TestAppliesRuleSkipsManifest with the prefix "d"; RG003 has an `applies`
\* rule that is false and a deny rule whose evaluation fails; the deny rule
\* of RG004, for names with the prefix "p", yields a string; the `applies`
\* rule of RG005 fails to evaluate.
PluginMeta(id, severity, kinds) ==
    [ID |-> id, DefaultSeverity |-> severity, Category |-> <<>>, Enabled |-> TRUE,
     AppliesTo |-> kinds]

PluginRG001 ==
    [meta |-> PluginMeta(RG001, SeverityInfo, {"Application"}),
     applies |-> [kind |-> "absent"],
     deny |-> [kind |-> "objects",
               objects |-> << ("message" :> <<"n","a","m","e"," ","m","u","s","t"," ","c","a","r","r","y"," ","t","h","e"," ","t","e","a","m"," ","p","r","e","f","i","x">>),
                              ("message" :> <<"p","r","o","j","e","c","t"," ","i","s"," ","m","i","s","s","i","n","g">>)
                              @@ ("severity" :> <<"E","R","R","O","R">>) @@ ("line" :> 2)
                              @@ ("rule_id" :> <<"T","E","A","M","0","0","1">>) >>]]

PluginRG002 ==
    [meta |-> PluginMeta(RG002, SeverityWarn, {}),
     applies |-> [kind |-> "startswith", prefix |-> <<"d">>],
     deny |-> [kind |-> "objects",
               objects |-> << ("message" :> <<"s","h","o","u","l","d"," ","n","o","t"," ","s","e","e"," ","t","h","i","s"," ","w","h","e","n"," ","a","p","p","l","i","e","s","=","f","a","l","s","e">>) >>]]

PluginRG003 ==
    [meta |-> PluginMeta(<<"R","G","0","0","3">>, SeverityWarn, {}),
     applies |-> [kind |-> "false"],
     deny |-> [kind |-> "error"]]

PluginRG004 ==
    [meta |-> PluginMeta(<<"R","G","0","0","4">>, SeverityWarn, {"Application"}),
     applies |-> [kind |-> "startswith", prefix |-> <<"p">>],
     deny |-> [kind |-> "scalar"]]

PluginRG005 ==
    [meta |-> PluginMeta(<<"R","G","0","0","5">>, SeverityWarn, {}),
     applies |-> [kind |-> "error"],
     deny |-> [kind |-> "objects", objects |-> <<>>]]

\* r.plugins.Plugins(): the registered plugins
PluginListPool ==
    { <<>>, <<PluginRG001>>, <<PluginRG002, PluginRG001>>,
      <<PluginRG003, PluginRG004, PluginRG005>> }

DryRunOff == [Enabled |-> FALSE, Mode |-> <<>>]

\* --dry-run with a mode the validator knows, and with one it does not
DryRunPool == { [Enabled |-> TRUE, Mode |-> <<"S","e","r","v","e","r">>], [Enabled |-> TRUE, Mode |-> <<"c","l","i","e","n","t">>] }

\* The waiver lists: none, one expired waiver, one valid waiver.
RunWaiverPool ==
    { <<>>,
      << [Rule |-> AR001, File |-> PatApps, Reason |-> Reason, Expires |-> Day1] >>,
      << [Rule |-> AR001, File |-> PatApps, Reason |-> Reason, Expires |-> <<"2","0","2","4","-","0","1","-","0","9">>] >> }

\* The baselines: none, one old entry for a rule finding, one entry for the
\* expired-waiver diagnostic of the same file.
RunBaselinePool ==
    { NilBaseline,
      LoadBaseline([kind |-> "json",
                    data |-> << [rule |-> AR001, file |-> FileApps, introduced |-> Day1] >>]).b,
      LoadBaseline([kind |-> "json",
                    data |-> << [rule |-> WAIVER_EXPIRED, file |-> FileApps,
                                 introduced |-> Day3] >>]).b }

\* The runner and the options of a run: waivers and baselines with the first
\* two configurations; the rule configurations with the plugin lists; the
\* dry-run modes.
RunOptions(configs, plugins, dryRuns, ws, baselines, aging) ==
    { o \in [MaxParallel : 0..MaxParallelFlag,
             Render : BOOLEAN,
             CacheEnabled : BOOLEAN,
             Config : configs,
             Plugins : plugins,
             DryRun : dryRuns,
             Waivers : ws,
             Baseline : baselines,
             BaselineAgingDays : aging,
             now : {3 * DayTicks}] :
        /\ o.CacheEnabled => o.Render
        /\ o.Baseline.nil => o.BaselineAgingDays = 0 }

RunOptionsPool ==
    RunOptions(RunConfigPool, {<<>>}, {DryRunOff}, RunWaiverPool, RunBaselinePool,
               0..MaxAgingDays)
    \cup RunOptions(RuleConfigs, PluginListPool, {DryRunOff}, {<<>>}, {NilBaseline}, {0})
    \cup RunOptions({[Rules |-> EmptyRules, Overrides |-> <<>>]}, {<<>>}, DryRunPool,
                    {<<>>}, {NilBaseline}, {0})

Distinct(s) == \A i, j \in 1..Len(s) : i # j => s[i] # s[j]

InitRun ==
    /\ included \in {ms \in SeqsUpTo(ManifestPool, MaxManifests) : Distinct(ms)}
    /\ opts \in RunOptionsPool
    /\ pc = [i \in 1..Len(included) |-> "start"]
    /\ sem = 0
    /\ errFlag = FALSE
    /\ firstErr = NoErr
    /\ cache = <<>>
    /\ localFindings = [i \in 1..Len(included) |-> <<>>]
    /\ runFindings = <<>>
    /\ report = NoResult
    /\ ResolveIdle /\ WaiverIdle /\ BaselineIdle /\ CLIIdle /\ LibIdle

otherVars == <<resolveVars, waiverVars, baselineVars, cliVars, libVars>>

\* A defect for comparison: the last error recorded replaces the first.
setErrLast(err) ==
    /\ firstErr' = err
    /\ errFlag' = TRUE

\* setErr(err): errOnce keeps the first error.
setErr(err) ==
    /\ firstErr' = IF errFlag THEN firstErr ELSE err
    /\ errFlag' = TRUE

\* The goroutine of manifest i starts: the first errFlag.Load().
GoStart(i) ==
    /\ pc[i] = "start"
    /\ pc' = [pc EXCEPT ![i] = IF errFlag THEN "done" ELSE "acquire"]
    /\ UNCHANGED <<included, opts, sem, errFlag, firstErr, cache, localFindings, runFindings,
                   report, otherVars>>

\* A defect for comparison: the semaphore has room for every goroutine.
GoAcquireUnbounded(i) ==
    /\ pc[i] = "acquire"
    /\ sem' = sem + 1
    /\ pc' = [pc EXCEPT ![i] = "recheck"]
    /\ UNCHANGED <<included, opts, errFlag, firstErr, cache, localFindings, runFindings,
                   report, otherVars>>

\* sem <- struct{}{}: blocks while maxParallel goroutines hold a slot.
GoAcquire(i) ==
    /\ pc[i] = "acquire"
    /\ sem < maxParallel
    /\ sem' = sem + 1
    /\ pc' = [pc EXCEPT ![i] = "recheck"]
    /\ UNCHANGED <<included, opts, errFlag, firstErr, cache, localFindings, runFindings,
                   report, otherVars>>

\* A defect for comparison: the second errFlag.Load() is missing.
GoRecheckBlind(i) ==
    /\ pc[i] = "recheck"
    /\ pc' = [pc EXCEPT ![i] = "validate"]
    /\ UNCHANGED <<included, opts, sem, errFlag, firstErr, cache, localFindings, runFindings,
                   report, otherVars>>

\* A defect for comparison: the early return does not release the slot.
GoRecheckKeepingSlot(i) ==
    /\ pc[i] = "recheck"
    /\ pc' = [pc EXCEPT ![i] = IF errFlag THEN "done" ELSE "validate"]
    /\ UNCHANGED <<included, opts, sem, errFlag, firstErr, cache, localFindings, runFindings,
                   report, otherVars>>

\* The second errFlag.Load(), holding a slot.
GoRecheck(i) ==
    /\ pc[i] = "recheck"
    /\ IF errFlag
       THEN pc' = [pc EXCEPT ![i] = "done"] /\ sem' = sem - 1
       ELSE pc' = [pc EXCEPT ![i] = "validate"] /\ sem' = sem
    /\ UNCHANGED <<included, opts, errFlag, firstErr, cache, localFindings, runFindings,
                   report, otherVars>>

GoValidated(i, v) ==
    IF v.err # NoErr
    THEN /\ setErr(v.err)
         /\ pc' = [pc EXCEPT ![i] = "done"]
         /\ sem' = sem - 1
         /\ UNCHANGED localFindings
    ELSE /\ localFindings' = [localFindings EXCEPT ![i] = @ \o v.findings]
         /\ pc' = [pc EXCEPT ![i] = IF opts.Render THEN "render" ELSE "append"]
         /\ UNCHANGED <<sem, errFlag, firstErr>>

\* r.schema.Validate(m)
GoValidate(i) ==
    /\ pc[i] = "validate"
    /\ GoValidated(i, SchemaValidate(included[i]))
    /\ UNCHANGED <<included, opts, cache, runFindings, report, otherVars>>

GoLookedUp(i, plan) ==
    CASE plan.kind = "err" ->
           /\ setErr(plan.err)
           /\ pc' = [pc EXCEPT ![i] = "done"]
           /\ sem' = sem - 1
           /\ UNCHANGED localFindings
      [] plan.kind = "hit" ->
           /\ localFindings' = [localFindings EXCEPT ![i] = @ \o plan.findings]
           /\ pc' = [pc EXCEPT ![i] = "append"]
           /\ UNCHANGED <<sem, errFlag, firstErr>>
      [] plan.kind = "exec" ->
           /\ pc' = [pc EXCEPT ![i] = "exec"]
           /\ UNCHANGED <<sem, errFlag, firstErr, localFindings>>
      [] OTHER ->
           /\ pc' = [pc EXCEPT ![i] = "append"]
           /\ UNCHANGED <<sem, errFlag, firstErr, localFindings>>

\* renderer.Render(m) up to the cache lookup
GoRender(i) ==
    /\ pc[i] = "render"
    /\ GoLookedUp(i, renderLookup(opts.Config, opts.CacheEnabled, included[i], cache))
    /\ UNCHANGED <<included, opts, cache, runFindings, report, otherVars>>

GoStored(i, res) ==
    /\ cache' = IF opts.CacheEnabled
                THEN MapPut(cache, renderCacheKey(included[i].kustomize), res)
                ELSE cache
    /\ localFindings' = [localFindings EXCEPT ![i] = @ \o res]

\* `kustomize build` has run: its findings are stored in the cache and returned.
GoRendered(i) ==
    /\ pc[i] = "exec"
    /\ GoStored(i, renderKustomize(opts.Config, included[i]))
    /\ pc' = [pc EXCEPT ![i] = "append"]
    /\ UNCHANGED <<included, opts, sem, errFlag, firstErr, runFindings, report, otherVars>>

\* A defect for comparison: the append without findingsMu, where a
\* goroutine writes back the slice it read before another one appended.
GoAppendUnlocked(i) ==
    /\ pc[i] = "append"
    /\ runFindings' = localFindings[i]
    /\ pc' = [pc EXCEPT ![i] = "done"]
    /\ sem' = sem - 1
    /\ UNCHANGED <<included, opts, errFlag, firstErr, cache, localFindings, report, otherVars>>

\* findings = append(findings, localFindings...) under findingsMu; the slot
\* is released and the goroutine ends.
GoAppend(i) ==
    /\ pc[i] = "append"
    /\ runFindings' = runFindings \o localFindings[i]
    /\ pc' = [pc EXCEPT ![i] = "done"]
    /\ sem' = sem - 1
    /\ UNCHANGED <<included, opts, errFlag, firstErr, cache, localFindings, report, otherVars>>

DRYRUN_SERVER == <<"D","R","Y","R","U","N","_","S","E","R","V","E","R">>
DRYRUN_KUBECONFORM == <<"D","R","Y","R","U","N","_","K","U","B","E","C","O","N","F","O","R","M">>

\* ruleIndex of Run, as the set of its keys
ruleIndex ==
    {SCHEMA_APPLICATION, AR001, WAIVER_EXPIRED, WAIVER_INVALID, BASELINE_AGED}
    \cup {opts.Plugins[k].meta.ID : k \in 1..Len(opts.Plugins)}
    \cup (IF opts.Render THEN {RENDER_KUSTOMIZE} ELSE {})
    \cup (IF opts.DryRun.Enabled THEN {DRYRUN_SERVER, DRYRUN_KUBECONFORM} ELSE {})

\* return Report{Findings: filtered, RuleIndex: ruleIndex, Suppressed: suppressed}, nil
OkReport(rep) ==
    [done |-> TRUE, Findings |-> rep.Findings, RuleIndex |-> ruleIndex,
     Suppressed |-> rep.Suppressed, err |-> NoErr]

\* return Report{}, err
ErrorReport(err) ==
    [done |-> TRUE, Findings |-> <<>>, RuleIndex |-> {}, Suppressed |-> <<>>, err |-> err]

\* Run after the rules loop has returned `rules`: an error ends the run, else
\* the findings of the rules and of UniqueNameFindings are appended and the
\* report is made.
RunTail(all) ==
    /\ runFindings' = SortStable(all)
    /\ report' = OkReport(RunReport(opts.Waivers, all, opts.Baseline,
                                    opts.BaselineAgingDays, opts.now))

RunRules(rules) ==
    IF rules.err # NoErr
    THEN report' = ErrorReport(rules.err) /\ UNCHANGED runFindings
    ELSE RunTail(runFindings \o rules.findings \o UniqueNameFindings(opts.Config, included, 1))

\* Run after wg.Wait() found no error: the dry-run validation, then the loops.
RunDryRun(dry) ==
    IF dry.err # NoErr
    THEN report' = ErrorReport(dry.err) /\ UNCHANGED runFindings
    ELSE RunRules(RulesLoop(opts.Config, opts.Plugins, included, 1, dry.findings))

\* wg.Wait() returns; the rest of Run up to its return.  runFindings is left
\* as the code leaves the findings slice: sorted in place.
RunReturn ==
    /\ ~report.done
    /\ \A i \in 1..Len(included) : pc[i] = "done"
    /\ IF firstErr # NoErr
       THEN report' = ErrorReport(firstErr) /\ UNCHANGED runFindings
       ELSE RunDryRun(DryRunValidate(opts.DryRun))
    /\ UNCHANGED <<included, opts, pc, sem, errFlag, firstErr, cache, localFindings, otherVars>>

Next ==
    \/ \E i \in 1..Len(included) : GoStart(i)
    \/ \E i \in 1..Len(included) : GoAcquire(i)
    \/ \E i \in 1..Len(included) : GoRecheck(i)
    \/ \E i \in 1..Len(included) : GoValidate(i)
    \/ \E i \in 1..Len(included) : GoRender(i)
    \/ \E i \in 1..Len(included) : GoRendered(i)
    \/ \E i \in 1..Len(included) : GoAppend(i)
    \/ RunReturn

Spec == InitRun /\ [][Next]_vars

\* ---- C1 ----
\* The fan-out with the goroutines run one after the other in manifest order:
\* [findings, cache, err]
RECURSIVE FanOutInOrder(_, _)

\* the goroutine of manifest i after a successful Validate that returned vf
FanOutRender(i, st, m, vf, plan, res) ==
    IF ~opts.Render \/ plan.kind = "none"
    THEN FanOutInOrder(i + 1, [st EXCEPT !.findings = @ \o vf])
    ELSE IF plan.kind = "err" THEN [st EXCEPT !.err = plan.err]
    ELSE IF plan.kind = "hit"
    THEN FanOutInOrder(i + 1, [st EXCEPT !.findings = @ \o vf \o plan.findings])
    ELSE FanOutInOrder(i + 1,
           [st EXCEPT !.findings = @ \o vf \o res,
                      !.cache = IF opts.CacheEnabled
                                THEN MapPut(@, renderCacheKey(m.kustomize), res)
                                ELSE @])

FanOutValidate(i, st, m, v) ==
    IF v.err # NoErr THEN [st EXCEPT !.err = v.err]
    ELSE FanOutRender(i, st, m, v.findings,
                      renderLookup(opts.Config, opts.CacheEnabled, m, st.cache),
                      renderKustomize(opts.Config, m))

FanOutInOrder(i, st) ==
    IF i > Len(included) \/ st.err # NoErr THEN st
    ELSE FanOutValidate(i, st, included[i], SchemaValidate(included[i]))

\* Report.Findings of the run whose fan-out returned fan and whose rules loop
\* returned rules
FindingsOf(fan, dry, rules) ==
    IF fan.err # NoErr \/ dry.err # NoErr \/ rules.err # NoErr THEN <<>>
    ELSE RunReport(opts.Waivers,
                   fan.findings \o rules.findings
                       \o UniqueNameFindings(opts.Config, included, 1),
                   opts.Baseline, opts.BaselineAgingDays, opts.now).Findings

\* Report.Findings of the run whose goroutines run one after the other in
\* manifest order
FindingsInOrder ==
    FindingsOf(FanOutInOrder(1, [findings |-> <<>>, cache |-> <<>>, err |-> NoErr]),
               DryRunValidate(opts.DryRun),
               RulesLoop(opts.Config, opts.Plugins, included, 1,
                         DryRunValidate(opts.DryRun).findings))

\* C1: Run is deterministic: whatever MaxParallel is and however the
\* goroutines interleave, the returned Report.Findings is the one sequence
\* the input determines (the one of the run in manifest order).
C1_RunIsDeterministic ==
    report.done => report.Findings = FindingsInOrder

\* ---- C6 ----
\* The diagnostics the run generated: those of applyWaivers on the sorted
\* findings, and those of Baseline.Filter on what applyWaivers left.
DiagnosticsOf(w) ==
    Range(w.extra)
    \cup Range(RunFilter(opts.Baseline, RunWaived(w), opts.BaselineAgingDays, opts.now).aged)

GeneratedDiagnostics == DiagnosticsOf(applyWaivers(opts.Waivers, runFindings, opts.now))

\* C6: every WAIVER_EXPIRED, WAIVER_INVALID and BASELINE_AGED diagnostic the
\* run generated is in the returned Report.Findings.
C6_DiagnosticsReachReport ==
    (report.done /\ report.err = NoErr) =>
        \A d \in GeneratedDiagnostics : d \in Range(report.Findings)

\* ---- C11 ----
\* Report{} of Go: every field at its zero value
IsEmptyReport(rep) == rep.Findings = <<>> /\ rep.RuleIndex = {} /\ rep.Suppressed = <<>>

\* the error of the sequential stages of a run whose fan-out recorded none:
\* that of the dry-run validation, else that of the first failing Resolve or
\* plugin Check of the loops
SequentialError ==
    IF DryRunValidate(opts.DryRun).err # NoErr THEN DryRunValidate(opts.DryRun).err
    ELSE RulesLoop(opts.Config, opts.Plugins, included, 1, <<>>).err

ReturnsError(err) == report.err = err /\ IsEmptyReport(report)

\* a unit records an error in this step
RecordsError(i) ==
    \/ pc[i] = "validate" /\ SchemaValidate(included[i]).err # NoErr
    \/ /\ pc[i] = "render"
       /\ renderLookup(opts.Config, opts.CacheEnabled, included[i], cache).kind = "err"

FirstErrorKept ==
    /\ firstErr # NoErr => firstErr' = firstErr
    /\ \A i \in 1..Len(included) :
          (firstErr = NoErr /\ RecordsError(i) /\ pc'[i] = "done" /\ pc[i] # pc'[i])
              => firstErr' \in {SchemaValidate(included[i]).err,
                                Resolve(opts.Config, kustomizeRuleMeta, included[i].FilePath).err}
                 /\ firstErr' # NoErr

NotStarted == {"start", "acquire", "recheck"}
Running == {"validate", "render", "exec", "append"}

NoNewUnitAfterError ==
    errFlag => \A i \in 1..Len(included) :
                   pc[i] \in NotStarted => pc'[i] \in NotStarted \cup {"done"}

EffectiveLimit ==
    IF opts.MaxParallel > 0 THEN opts.MaxParallel
    ELSE IF NumCPU >= 1 THEN NumCPU ELSE 1

HoldingSlot == {i \in 1..Len(included) : pc[i] \in Running \cup {"recheck"}}

\* C13: at every moment the number of documents being validated or rendered
\* (the goroutines holding a slot of the semaphore) is at most the effective
\* limit: MaxParallel when positive, else the CPU count, and at least 1.
C13_BoundedWorkerPool ==
    /\ Cardinality(HoldingSlot) <= EffectiveLimit
    /\ sem = Cardinality(HoldingSlot)
    /\ EffectiveLimit >= 1

\* With --max-parallel 1 one document is being validated and another waits
\* for the slot.
C13_Witness ==
    /\ opts.MaxParallel = 1
    /\ \E i, j \in 1..Len(included) : pc[i] = "validate" /\ pc[j] = "acquire"
    /\ Cardinality(HoldingSlot) = EffectiveLimit

\* ---- C14 ----
StrLeq(s, t) == s = t \/ StrLess(s, t)

\* (file path, line, rule ID, message) of a is at most that of b
TupleLeq(a, b) ==
    \/ a.FilePath # b.FilePath /\ StrLess(a.FilePath, b.FilePath)
    \/ a.FilePath = b.FilePath /\ a.Line < b.Line
    \/ a.FilePath = b.FilePath /\ a.Line = b.Line
       /\ a.RuleID # b.RuleID /\ StrLess(a.RuleID, b.RuleID)
    \/ a.FilePath = b.FilePath /\ a.Line = b.Line /\ a.RuleID = b.RuleID
       /\ StrLeq(a.Message, b.Message)

InjectedRules == {WAIVER_EXPIRED, WAIVER_INVALID, BASELINE_AGED}

\* C14: in every Report returned without error, Findings is sorted ascending
\* by (file path, line, rule ID, message), the injected WAIVER_EXPIRED,
\* WAIVER_INVALID and BASELINE_AGED diagnostics included.
C14_FindingsSorted ==
    (report.done /\ report.err = NoErr) =>
        \A k \in 1..(Len(report.Findings) - 1) :
            TupleLeq(report.Findings[k], report.Findings[k + 1])

\* A report in which an injected diagnostic stands before a finding of a
\* rule: the second sort has moved it there.
C14_Witness ==
    /\ report.done /\ report.err = NoErr
    /\ \E k \in 1..(Len(report.Findings) - 1) :
          /\ report.Findings[k].RuleID \in InjectedRules
          /\ report.Findings[k + 1].RuleID \notin InjectedRules
          /\ report.Findings[k] # report.Findings[k + 1]

\* ---- C15 ----
\* The (rule, file) pairs a run evaluates: the render rule for a document with
\* a kustomize source, AR001 and the plugins for the documents they apply to,
\* AR011 for the documents of a group of one name.
EvaluatedPairs ==
    {[rl |-> kustomizeRuleMeta, file |-> included[i].FilePath] :
        i \in {i \in 1..Len(included) : opts.Render /\ included[i].kustomize # <<>>}}
    \cup {[rl |-> ruleTargetRevisionPinned, file |-> included[i].FilePath] :
            i \in {i \in 1..Len(included) : TargetRevisionApplies(included[i])}}
    \cup UNION {{[rl |-> opts.Plugins[k].meta, file |-> included[i].FilePath] :
                    i \in {i \in 1..Len(included) :
                             PluginAppliesTo(opts.Plugins[k], included[i])}} :
                k \in 1..Len(opts.Plugins)}
    \cup {[rl |-> uniqueNameMeta, file |-> included[i].FilePath] :
            i \in {i \in 1..Len(included) : InNameGroup(included, i)}}

IsStrSuffix(suf, str) ==
    Len(suf) <= Len(str) /\ SubSeq(str, Len(str) - Len(suf) + 1, Len(str)) = suf

\* the severity strings of the configuration that are not info, warn or error
ConfiguredSeverities(cfg) ==
    {cfg.Rules[id].Severity : id \in DOMAIN cfg.Rules}
    \cup UNION {{cfg.Overrides[k].Rules[id].Severity : id \in DOMAIN cfg.Overrides[k].Rules} :
                k \in 1..Len(cfg.Overrides)}

UnknownSeverities(cfg) ==
    {v \in ConfiguredSeverities(cfg) :
        v # <<>> /\ ToLower(TrimSpace(v)) \notin {SeverityInfo, SeverityWarn, SeverityError}}

ResolveFails(pair) == Resolve(opts.Config, pair.rl, pair.file).err # NoErr

\* C15: a severity string other than info/warn/error in a setting that
\* applies to an evaluated (rule, file) pair makes Resolve fail with an error
\* naming the value, and makes Run fail: for the rules of the loops, the
\* plugins and the uniqueness rule AR011 alike.
C15_UnknownSeverityFailsRun ==
    report.done =>
        \A pair \in EvaluatedPairs :
            ResolveFails(pair) =>
                /\ \E v \in UnknownSeverities(opts.Config) :
                      IsStrSuffix(v, Resolve(opts.Config, pair.rl, pair.file).err)
                /\ report.err # NoErr

\* ---- C16 ----
\* a finding of rule id at the document m, on line `line`
FindingAt(f, id, m, line) ==
    f.RuleID = id /\ f.FilePath = m.FilePath /\ f.Line = line /\ f.ResourceName = m.Name

\* rule AR001 contributes a finding for the document m
RuleContributes(m) == \E f \in Range(runFindings) : FindingAt(f, AR001, m, m.MetadataLine)

\* the plugin p contributes a finding for the document m (deny objects that
\* set no line are reported on the document's line)
PluginContributes(p, m) == \E f \in Range(runFindings) : FindingAt(f, p.meta.ID, m, m.Line)

IsEnabledFor(rl, m) == Resolve(opts.Config, rl, m.FilePath).Enabled

DefaultRule(rl) == [Metadata |-> rl, Severity |-> rl.DefaultSeverity, Enabled |-> rl.Enabled]

\* C16: in a run that succeeds, AR001 contributes findings for a document
\* exactly if it applies to the document, is resolved as enabled for the
\* document's file, and its Check reports something; likewise every plugin;
\* and a run fails with the error of a plugin's Check only if that plugin
\* applies to the document and is enabled for its file.
C16_RuleGating ==
    /\ (report.done /\ report.err = NoErr) =>
          \A i \in 1..Len(included) :
              /\ RuleContributes(included[i])
                    <=> /\ TargetRevisionApplies(included[i])
                        /\ IsEnabledFor(ruleTargetRevisionPinned, included[i])
                        /\ TargetRevisionCheck(included[i],
                                               DefaultRule(ruleTargetRevisionPinned)) # <<>>
              /\ \A k \in 1..Len(opts.Plugins) :
                    PluginContributes(opts.Plugins[k], included[i])
                        <=> /\ PluginAppliesTo(opts.Plugins[k], included[i])
                            /\ IsEnabledFor(opts.Plugins[k].meta, included[i])
                            /\ PluginCheck(opts.Plugins[k], included[i]).findings # <<>>
    /\ (report.done /\ firstErr = NoErr) =>
          \A k \in 1..Len(opts.Plugins) :
              (\E i \in 1..Len(included) :
                   /\ PluginCheck(opts.Plugins[k], included[i]).err # NoErr
                   /\ report.err = PluginCheck(opts.Plugins[k], included[i]).err)
                  => \E i \in 1..Len(included) :
                         /\ PluginCheck(opts.Plugins[k], included[i]).err # NoErr
                         /\ PluginAppliesTo(opts.Plugins[k], included[i])
                         /\ IsEnabledFor(opts.Plugins[k].meta, included[i])

\* A run has succeeded in which AR001, disabled globally and enabled for
\* manifests/*, reports the document of manifests/app.yaml and not the one of
\* apps/app.yaml whose targetRevision is HEAD, and in which a disabled plugin
\* whose Check would fail applies to a document.
C16_Witness ==
    /\ report.done /\ report.err = NoErr
    /\ \E i, j \in 1..Len(included) :
          /\ ~IsEnabledFor(ruleTargetRevisionPinned, included[i])
          /\ TargetRevisionCheck(included[i], DefaultRule(ruleTargetRevisionPinned)) # <<>>
          /\ TargetRevisionApplies(included[i])
          /\ ~RuleContributes(included[i])
          /\ RuleContributes(included[j])
    /\ \E i \in 1..Len(included), k \in 1..Len(opts.Plugins) :
          /\ PluginAppliesTo(opts.Plugins[k], included[i])
          /\ ~IsEnabledFor(opts.Plugins[k].meta, included[i])
          /\ PluginCheck(opts.Plugins[k], included[i]).err # NoErr

\* ---- C17 ----
\* the configuration sets a severity for the rule id, globally or for some path
SetsSeverityFor(cfg, id) ==
    \/ id \in DOMAIN cfg.Rules /\ cfg.Rules[id].Severity # <<>>
    \/ \E k \in 1..Len(cfg.Overrides) :
          id \in DOMAIN cfg.Overrides[k].Rules /\ cfg.Overrides[k].Rules[id].Severity # <<>>

\* C17: when the configuration sets the severity of the built-in rule AR001
\* and resolves it to S for a file, every finding AR001 reports for the
\* documents of that file carries the severity S.
C17_OverrideReclassifiesBuiltin ==
    (report.done /\ report.err = NoErr /\ SetsSeverityFor(opts.Config, AR001)) =>
        \A f \in Range(runFindings) :
            f.RuleID = AR001 =>
                f.Severity = Resolve(opts.Config, ruleTargetRevisionPinned, f.FilePath).Severity

\* ---- C18 ----
\* the deny objects of the plugin p that set no severity of their own
PlainDenyObjects(p) ==
    IF p.deny.kind # "objects" THEN {}
    ELSE {p.deny.objects[n] : n \in {n \in 1..Len(p.deny.objects) :
                                       RawString(p.deny.objects[n], "severity") = <<>>}}

\* C18: when the configuration sets the severity of a plugin's rule ID and
\* resolves it to S for a file, every finding of that plugin for that file
\* whose deny object sets no severity is reported with the severity S.
C18_OverrideReclassifiesPlugin ==
    (report.done /\ report.err = NoErr) =>
        \A k \in 1..Len(opts.Plugins) :
            SetsSeverityFor(opts.Config, opts.Plugins[k].meta.ID) =>
                \A f \in Range(runFindings), o \in PlainDenyObjects(opts.Plugins[k]) :
                    (f.RuleID = opts.Plugins[k].meta.ID /\ f.Message = RawString(o, "message"))
                        => f.Severity
                             = Resolve(opts.Config, opts.Plugins[k].meta, f.FilePath).Severity

\* ---- C19 ----
HasApplies(p) == p.applies.kind # "absent"

\* C19: a plugin with an `applies` rule returns no finding for a document on
\* which the rule does not evaluate to true, whatever its deny rule yields,
\* and a successful run reports none for it; where `applies` is true or
\* absent, Check returns one finding for every object of the deny rule, and a
\* successful run in which the plugin is enabled reports them.
C19_AppliesGuardsDeny ==
    \A k \in 1..Len(opts.Plugins), i \in 1..Len(included) :
        IF HasApplies(opts.Plugins[k]) /\ EvalApplies(opts.Plugins[k], included[i]) # "true"
        THEN /\ PluginCheck(opts.Plugins[k], included[i]).findings = <<>>
             /\ (report.done /\ report.err = NoErr)
                    => ~PluginContributes(opts.Plugins[k], included[i])
        ELSE opts.Plugins[k].deny.kind = "objects" =>
               /\ Len(PluginCheck(opts.Plugins[k], included[i]).findings)
                    = Len(opts.Plugins[k].deny.objects)
               /\ (/\ report.done /\ report.err = NoErr
                   /\ PluginAppliesTo(opts.Plugins[k], included[i])
                   /\ IsEnabledFor(opts.Plugins[k].meta, included[i])
                   /\ opts.Plugins[k].deny.objects # <<>>)
                      => PluginContributes(opts.Plugins[k], included[i])

\* A successful run over demo and prod with the plugin whose `applies` asks
\* for the prefix "d": its deny finding is reported for demo and not for prod.
C19_Witness ==
    /\ report.done /\ report.err = NoErr
    /\ \E k \in 1..Len(opts.Plugins), i, j \in 1..Len(included) :
          /\ HasApplies(opts.Plugins[k])
          /\ opts.Plugins[k].deny.kind = "objects" /\ opts.Plugins[k].deny.objects # <<>>
          /\ EvalApplies(opts.Plugins[k], included[i]) = "true"
          /\ PluginContributes(opts.Plugins[k], included[i])
          /\ EvalApplies(opts.Plugins[k], included[j]) # "true"
          /\ ~PluginContributes(opts.Plugins[k], included[j])

\* ---- C20 ----
\* the number of AR011 findings for the document m
UniqueNameCount(m) ==
    Cardinality({k \in 1..Len(runFindings) :
                    FindingAt(runFindings[k], AR011, m, m.MetadataLine)})

ResolvesUniqueName(m) == Resolve(opts.Config, uniqueNameMeta, m.FilePath)

\* C20: in a successful run every Application document that shares its name
\* with another included Application document gets exactly one AR011 finding
\* if its file resolves AR011 as enabled and none if it resolves it as
\* disabled, whatever the files of the other documents of the group resolve
\* to; a document with a unique name gets none.
C20_UniqueNames ==
    (report.done /\ report.err = NoErr) =>
        \A i \in 1..Len(included) :
            IF ~InNameGroup(included, i) THEN UniqueNameCount(included[i]) = 0
            ELSE ResolvesUniqueName(included[i]).err = NoErr =>
                   UniqueNameCount(included[i])
                     = IF ResolvesUniqueName(included[i]).Enabled THEN 1 ELSE 0

\* Two applications of one name in two files, AR011 disabled for the path of
\* the first: the second has its finding, the first has none.
C20_Witness ==
    /\ report.done /\ report.err = NoErr
    /\ \E i, j \in 1..Len(included) :
          /\ i # j /\ InNameGroup(included, i) /\ InNameGroup(included, j)
          /\ included[i].FilePath # included[j].FilePath
          /\ ~ResolvesUniqueName(included[i]).Enabled
          /\ ResolvesUniqueName(included[j]).Enabled
          /\ UniqueNameCount(included[i]) = 0
          /\ UniqueNameCount(included[j]) = 1

-----------------------------------------------------------------------------
(* The built-in rules on one document: internal/rule/rules.go, and the     *)
(* loop of Runner.Run that gates and calls them                            *)

AR006 == <<"A","R","0","0","6">>

ruleProjectNotDefault ==
    [ID |-> AR002, DefaultSeverity |-> SeverityError,
     Category |-> <<"s","e","c","u","r","i","t","y">>, Enabled |-> TRUE]

ruleFinalizerAware ==
    [ID |-> AR006, DefaultSeverity |-> SeverityInfo,
     Category |-> <<"s","a","f","e","t","y">>, Enabled |-> TRUE]

\* DefaultRules(), the rules the model registers, in order
DefaultRules == <<ruleTargetRevisionPinned, ruleProjectNotDefault, ruleFinalizerAware>>

\* Metadata.AppliesTo of each
AppliesTo(id) ==
    IF id = AR006 THEN {"Application"} ELSE {"Application", "ApplicationSet"}

\* Rule.Applies of each
Applies(id, m) == IF id = AR001 THEN TargetRevisionApplies(m) ELSE TRUE

\* checkValue of ruleProjectNotDefault().Check
checkValue(builder, project) ==
    IF TrimSpace(project) = <<>>
    THEN << NewFinding(builder, <<"s","p","e","c",".","p","r","o","j","e","c","t"," ","i","s"," ","e","m","p","t","y",";"," ","s","p","e","c","i","f","y"," ","a"," ","p","r","o","j","e","c","t"," ","t","o"," ","s","c","o","p","e"," ","a","c","c","e","s","s">>, SeverityError) >>
    ELSE IF TrimSpace(project) = <<"d","e","f","a","u","l","t">>
    THEN << NewFinding(builder, <<"s","p","e","c",".","p","r","o","j","e","c","t"," ","s","h","o","u","l","d"," ","n","o","t"," ","b","e"," ">> \o <<Ascii[8]>> \o <<"d","e","f","a","u","l","t">> \o <<Ascii[8]>>, SeverityError) >>
    ELSE <<>>

\* the loop over the candidates of an ApplicationSet
RECURSIVE checkCandidates(_, _, _)
checkCandidates(builder, candidates, k) ==
    IF k > Len(candidates)
    THEN << NewFinding(builder, <<"A","p","p","l","i","c","a","t","i","o","n","S","e","t"," ","t","e","m","p","l","a","t","e"," ","l","a","c","k","s"," ","p","r","o","j","e","c","t"," ","a","s","s","i","g","n","m","e","n","t">>, SeverityError) >>
    ELSE IF TrimSpace(candidates[k]) = <<>> THEN checkCandidates(builder, candidates, k + 1)
    ELSE checkValue(builder, TrimSpace(candidates[k]))

\* ruleProjectNotDefault().Check
ProjectCheck(builder, m) ==
    IF m.Kind = "Application" THEN checkValue(builder, m.Object.projects[1])
    ELSE IF m.Kind = "ApplicationSet" THEN checkCandidates(builder, m.Object.projects, 1)
    ELSE <<>>

finalizerValue == <<"r","e","s","o","u","r","c","e","s","-","f","i","n","a","l","i","z","e","r",".","a","r","g","o","c","d",".","a","r","g","o","p","r","o","j",".","i","o">>

\* ruleFinalizerAware().Check
FinalizerCheck(builder, m) ==
    IF finalizerValue \in Range(m.Object.finalizers)
    THEN << NewFinding(builder, <<"F","i","n","a","l","i","z","e","r"," ","r","e","s","o","u","r","c","e","s","-","f","i","n","a","l","i","z","e","r",".","a","r","g","o","c","d",".","a","r","g","o","p","r","o","j",".","i","o"," ","e","n","a","b","l","e","d">>, SeverityInfo) >>
    ELSE << NewFinding(builder, <<"A","p","p","l","i","c","a","t","i","o","n"," ","d","e","l","e","t","e","s"," ","c","a","s","c","a","d","e","d"," ","r","e","s","o","u","r","c","e","s"," ","i","m","m","e","d","i","a","t","e","l","y",";"," ","a","d","d"," ","r","e","s","o","u","r","c","e","s","-","f","i","n","a","l","i","z","e","r",".","a","r","g","o","c","d",".","a","r","g","o","p","r","o","j",".","i","o"," ","i","f"," ","n","e","e","d","e","d">>, SeverityWarn) >>

\* Rule.Check of each
Check(id, builder, m) ==
    IF id = AR001 THEN TargetRevisionCheckWith(builder, m)
    ELSE IF id = AR002 THEN ProjectCheck(builder, m)
    ELSE FinalizerCheck(builder, m)

\* Run, one rule of r.rules on one manifest: [findings, err]
Checked(meta, cr, m) ==
    IF ~Applies(meta.ID, m) THEN NoFindings
    ELSE IF cr.err # NoErr THEN [findings |-> <<>>, err |-> cr.err]
    ELSE IF ~cr.Enabled THEN NoFindings
    ELSE [findings |-> Check(meta.ID, [Rule |-> cr, FilePath |-> m.FilePath,
                                       Line |-> m.MetadataLine, ResourceName |-> m.Name], m),
          err |-> NoErr]

RulesStepOf(one, acc) ==
    IF acc.err # NoErr THEN acc
    ELSE [findings |-> acc.findings \o one.findings, err |-> one.err]

\* Run, the loop over r.rules for one manifest
RECURSIVE DefaultRulesLoop(_, _, _, _)
DefaultRulesLoop(cfg, m, k, acc) ==
    IF k > Len(DefaultRules) THEN acc
    ELSE DefaultRulesLoop(cfg, m, k + 1,
             RulesStepOf(Checked(DefaultRules[k],
                                 Resolve(cfg, DefaultRules[k], m.FilePath), m), acc))

MaxSources == 2

HEAD == <<"H","E","A","D">>

\* targetRevision values: none, HEAD, a branch name in mixed case, a tag,
\* a wildcard range
RevisionPool == { <<>>, HEAD, <<"M","a","i","n">>, V1, <<"1",".","*">> }

BlockPool == {Block(rev) : rev \in RevisionPool}

NoProjects == << <<>>, <<>>, <<>>, <<>> >>

\* spec.project, spec.template.spec.project, spec.applicationSpec.project,
\* spec.applicationCore.project
ProjectsPool ==
    { NoProjects,
      << <<"d","e","f","a","u","l","t">>, <<>>, <<>>, <<>> >>,
      << <<" ">>, <<"t","e","a","m">>, <<>>, <<"d","e","f","a","u","l","t">> >> }

FinalizersPool == { <<>>, << finalizerValue >> }

ObjectPool(kind) ==
    IF kind = "Application"
    THEN {ObjectOf(s, ss, NoBlock, <<>>, p, f) :
            s \in BlockPool \cup {NoBlock}, ss \in SeqsUpTo(BlockPool, MaxSources),
            p \in ProjectsPool, f \in FinalizersPool}
    ELSE IF kind = "ApplicationSet"
    THEN {ObjectOf(NoBlock, <<>>, s, ss, p, f) :
            s \in BlockPool \cup {NoBlock}, ss \in SeqsUpTo(BlockPool, MaxSources),
            p \in ProjectsPool, f \in FinalizersPool}
    ELSE {ObjectOf(NoBlock, <<>>, NoBlock, <<>>, NoProjects, f) : f \in FinalizersPool}

DocPool ==
    UNION { {[FilePath |-> FileApps, Line |-> 1, MetadataLine |-> 3, Name |-> Demo,
              Kind |-> kind, Object |-> o] : o \in ObjectPool(kind)} :
            kind \in {"Application", "ApplicationSet", "AppProject"} }

CoreIdle == ResolveIdle /\ WaiverIdle /\ BaselineIdle /\ RunIdle /\ CLIIdle

InitRule ==
    /\ doc \in DocPool
    /\ checked = NoResult
    /\ CoreIdle /\ ProfileIdle /\ IncludeIdle /\ LoaderIdle

\* The rules loop of Run on the document, under the default configuration.
CheckDoc ==
    /\ ~checked.done
    /\ checked' = [done |-> TRUE,
                   out |-> DefaultRulesLoop([Rules |-> EmptyRules, Overrides |-> <<>>], doc, 1,
                                            NoFindings)]
    /\ UNCHANGED <<doc, profileVars, includeVars, loaderVars, coreVars>>

NextRule == CheckDoc

SpecRule == InitRule /\ [][NextRule]_vars

\* The source blocks the document declares: the singular source, then the
\* entries of the sources list, of an Application or of the template of an
\* ApplicationSet.
BlocksOf(spec) ==
    (IF spec.source.declared THEN << spec.source >> ELSE <<>>) \o spec.sources

DeclaredBlocks(m) ==
    IF m.Kind = "Application" THEN BlocksOf(m.Object)
    ELSE IF m.Kind = "ApplicationSet" THEN BlocksOf(m.Object.template)
    ELSE <<>>

IsFloating(rev) == ToLower(rev) \in floatingRevisionPattern
HasWildcard(rev) == "*" \in Range(rev)
IsPinned(rev) == rev # <<>> /\ ~IsFloating(rev) /\ ~HasWildcard(rev)

FindingsOfRule(id) == SelectSeq(checked.out.findings, LAMBDA f : f.RuleID = id)

UnpinnedBlocks(m) ==
    {k \in 1..Len(DeclaredBlocks(m)) :
        LET rev == DeclaredBlocks(m)[k].targetRevision
        IN  rev = <<>> \/ IsFloating(rev)}

\* C21: AR001 examines the declared source blocks of a document and only
\* those: a document all of whose declared source blocks carry a pinned
\* revision gets no AR001 finding, and there are at least as many AR001
\* findings as declared source blocks with a floating or empty revision.
C21_EverySourceBlockExamined ==
    checked.done =>
        /\ (\A k \in 1..Len(DeclaredBlocks(doc)) :
                IsPinned(DeclaredBlocks(doc)[k].targetRevision))
           => FindingsOfRule(AR001) = <<>>
        /\ Len(FindingsOfRule(AR001)) >= Cardinality(UnpinnedBlocks(doc))

\* An Application with the singular source block only
SingleSource(m) ==
    m.Kind = "Application" /\ m.Object.source.declared /\ m.Object.sources = <<>>

\* C22: for an Application with a single source block, AR001 yields one
\* finding at error severity when the targetRevision is HEAD or a floating
\* name in any case, one at warn severity when it contains a wildcard, one
\* when it is empty, and none otherwise; HEAD is reported at error although
\* the default severity of the rule is warn.
C22_OneFindingPerRevisionClass ==
    (checked.done /\ SingleSource(doc)) =>
        LET rev == doc.Object.source.targetRevision
        IN  IF rev = HEAD \/ IsFloating(rev)
            THEN /\ Len(FindingsOfRule(AR001)) = 1
                 /\ FindingsOfRule(AR001)[1].Severity = SeverityError
                 /\ ruleTargetRevisionPinned.DefaultSeverity = SeverityWarn
            ELSE IF HasWildcard(rev)
            THEN /\ Len(FindingsOfRule(AR001)) = 1
                 /\ FindingsOfRule(AR001)[1].Severity = SeverityWarn
            ELSE IF rev = <<>> THEN Len(FindingsOfRule(AR001)) = 1
            ELSE FindingsOfRule(AR001) = <<>>

C22_Witness ==
    /\ checked.done /\ SingleSource(doc)
    /\ doc.Object.source.targetRevision = HEAD
    /\ Len(FindingsOfRule(AR001)) = 1
    /\ FindingsOfRule(AR001)[1].Severity = SeverityError

\* C23: a built-in rule reports findings only for documents whose kind is
\* listed in the AppliesTo of its metadata.
C23_RulesReportOnlyOnListedKinds ==
    checked.done =>
        \A k \in 1..Len(checked.out.findings) :
            doc.Kind \in AppliesTo(checked.out.findings[k].RuleID)

-----------------------------------------------------------------------------
(* Config.ApplyProfiles: internal/config/config.go and profiles.go         *)

AR005 == <<"A","R","0","0","5">>
AR007 == <<"A","R","0","0","7">>
AR010 == <<"A","R","0","1","0">>
AR013 == <<"A","R","0","1","3">>
AR014 == <<"A","R","0","1","4">>

ProfileDev == <<"d","e","v">>
ProfileProd == <<"p","r","o","d">>
ProfileSecurity == <<"s","e","c","u","r","i","t","y">>
ProfileHardening == <<"h","a","r","d","e","n","i","n","g">>

\* RuleConfig{Severity: s}
SeverityOnly(s) == [Enabled |-> "nil", Severity |-> s]

builtinProfiles ==
    (ProfileDev :>
        [rules |-> (AR001 :> SeverityOnly(SeverityWarn)) @@ (AR005 :> SeverityOnly(SeverityInfo))
                   @@ (AR013 :> SeverityOnly(SeverityWarn)) @@ (AR014 :> SeverityOnly(SeverityWarn)),
         threshold |-> SeverityWarn])
    @@ (ProfileProd :>
        [rules |-> (AR001 :> SeverityOnly(SeverityError)) @@ (AR007 :> SeverityOnly(SeverityError))
                   @@ (AR013 :> SeverityOnly(SeverityError)) @@ (AR014 :> SeverityOnly(SeverityError)),
         threshold |-> SeverityError])
    @@ (ProfileSecurity :>
        [rules |-> (AR013 :> SeverityOnly(SeverityError)) @@ (AR014 :> SeverityOnly(SeverityError))
                   @@ (AR010 :> SeverityOnly(SeverityWarn)),
         threshold |-> <<>>])
    @@ (ProfileHardening :>
        [rules |-> (AR001 :> SeverityOnly(SeverityError)) @@ (AR010 :> SeverityOnly(SeverityWarn))
                   @@ (AR013 :> SeverityOnly(SeverityError)) @@ (AR014 :> SeverityOnly(SeverityError)),
         threshold |-> SeverityError])

\* existing := cfg.Rules[ruleID], the zero RuleConfig when there is none
existingRule(rules, id) ==
    IF id \in DOMAIN rules THEN rules[id] ELSE [Enabled |-> "nil", Severity |-> <<>>]

\* the body of the loop over profile.rules
mergeRule(existing, override) ==
    [Enabled |-> IF override.Enabled # "nil" THEN override.Enabled ELSE existing.Enabled,
     Severity |-> IF override.Severity # <<>> THEN override.Severity ELSE existing.Severity]

\* the body of the loop over names for a known profile
applyProfile(cfg, profile) ==
    [Rules |-> [id \in DOMAIN cfg.Rules \cup DOMAIN profile.rules |->
                   IF id \in DOMAIN profile.rules
                   THEN mergeRule(existingRule(cfg.Rules, id), profile.rules[id])
                   ELSE cfg.Rules[id]],
     Threshold |-> IF profile.threshold # <<>> THEN profile.threshold ELSE cfg.Threshold]

\* the loop over names, from the k-th on: [cfg, err]
RECURSIVE ApplyProfilesFrom(_, _, _)
ApplyProfilesFrom(cfg, names, k) ==
    IF k > Len(names) THEN [cfg |-> cfg, err |-> NoErr]
    ELSE IF names[k] = <<>> THEN ApplyProfilesFrom(cfg, names, k + 1)
    ELSE IF ToLower(names[k]) \notin DOMAIN builtinProfiles
    THEN [cfg |-> cfg,
          err |-> <<"u","n","k","n","o","w","n"," ","p","r","o","f","i","l","e"," ">> \o <<Ascii[3]>> \o names[k] \o <<Ascii[3]>>]
    ELSE ApplyProfilesFrom(applyProfile(cfg, builtinProfiles[ToLower(names[k])]), names, k + 1)

Reverse(s) == [i \in 1..Len(s) |-> s[Len(s) + 1 - i]]

\* A defect for comparison: the profiles are merged from the last to the first.
ApplyProfilesBackwards(cfg, names) == ApplyProfilesFrom(cfg, Reverse(names), 1)

\* cfg.ApplyProfiles(names...): the configuration afterwards and the error
ApplyProfiles(cfg, names) == ApplyProfilesFrom(cfg, names, 1)

MaxProfiles == 3

\* Names as given on the command line or in the file: the four profiles,
\* one of them in capitals, a name that is no profile, and an empty entry.
ProfileNamePool ==
    { ProfileDev, ProfileProd, ProfileSecurity, ProfileHardening,
      <<"P","R","O","D">>, <<"s","t","a","g","i","n","g">>, <<>> }

ProfileConfigPool ==
    { [Rules |-> r, Threshold |-> t] :
        r \in { EmptyRules,
                (AR001 :> [Enabled |-> "false", Severity |-> SeverityInfo]),
                (AR013 :> [Enabled |-> "true", Severity |-> <<>>])
                   @@ (AR002 :> [Enabled |-> "false", Severity |-> SeverityWarn]) },
        t \in { <<>>, SeverityInfo } }

InitProfiles ==
    /\ pcfg \in ProfileConfigPool
    /\ pnames \in SeqsUpTo(ProfileNamePool, MaxProfiles)
    /\ presult = NoResult
    /\ CoreIdle /\ RuleIdle /\ IncludeIdle /\ LoaderIdle

CallApplyProfiles ==
    /\ ~presult.done
    /\ presult' = [done |-> TRUE, out |-> ApplyProfiles(pcfg, pnames)]
    /\ UNCHANGED <<pcfg, pnames, ruleVars, includeVars, loaderVars, coreVars>>

NextProfiles == CallApplyProfiles

SpecProfiles == InitProfiles /\ [][NextProfiles]_vars

\* The profile the k-th name stands for, and the names that stand for none
IsProfile(name) == ToLower(name) \in DOMAIN builtinProfiles
ProfileAt(k) == builtinProfiles[ToLower(pnames[k])]
UnknownNames == {k \in 1..Len(pnames) : pnames[k] # <<>> /\ ~IsProfile(pnames[k])}

Last(S) == CHOOSE k \in S : \A j \in S : j <= k

SettingSeverity(id) ==
    {k \in 1..Len(pnames) :
        /\ IsProfile(pnames[k]) /\ id \in DOMAIN ProfileAt(k).rules
        /\ ProfileAt(k).rules[id].Severity # <<>>}

SettingEnabled(id) ==
    {k \in 1..Len(pnames) :
        /\ IsProfile(pnames[k]) /\ id \in DOMAIN ProfileAt(k).rules
        /\ ProfileAt(k).rules[id].Enabled # "nil"}

SettingThreshold ==
    {k \in 1..Len(pnames) : IsProfile(pnames[k]) /\ ProfileAt(k).threshold # <<>>}

ProfileRuleIDs == UNION {DOMAIN builtinProfiles[n].rules : n \in DOMAIN builtinProfiles}

\* C24: ApplyProfiles merges the profiles in the order given: the severity
\* and the enabled flag of a rule are those of the last profile that sets
\* them and otherwise the previous ones, the threshold is that of the last
\* profile that defines one and otherwise the previous one, and a name
\* that is no profile yields an error.
C24_ProfilesMergeInOrder ==
    presult.done =>
        IF UnknownNames # {} THEN presult.out.err # NoErr
        ELSE /\ presult.out.err = NoErr
             /\ presult.out.cfg.Threshold =
                    IF SettingThreshold = {} THEN pcfg.Threshold
                    ELSE ProfileAt(Last(SettingThreshold)).threshold
             /\ \A id \in ProfileRuleIDs \cup DOMAIN pcfg.Rules :
                    /\ existingRule(presult.out.cfg.Rules, id).Severity =
                           IF SettingSeverity(id) = {} THEN existingRule(pcfg.Rules, id).Severity
                           ELSE ProfileAt(Last(SettingSeverity(id))).rules[id].Severity
                    /\ existingRule(presult.out.cfg.Rules, id).Enabled =
                           IF SettingEnabled(id) = {} THEN existingRule(pcfg.Rules, id).Enabled
                           ELSE ProfileAt(Last(SettingEnabled(id))).rules[id].Enabled

C24_Witness ==
    /\ presult.done
    /\ pnames = << ProfileProd, ProfileDev, ProfileSecurity >>
    /\ AR001 \in DOMAIN pcfg.Rules /\ pcfg.Threshold = SeverityInfo
    /\ presult.out.err = NoErr
    /\ presult.out.cfg.Threshold = SeverityWarn
    /\ presult.out.cfg.Rules[AR001] = [Enabled |-> "false", Severity |-> SeverityWarn]
    /\ presult.out.cfg.Rules[AR013].Severity = SeverityError

-----------------------------------------------------------------------------
(* The kind filter of Runner.Run: internal/lint/runner.go, with            *)
(* manifest.Parser.ParseFile                                               *)

ArgoAPI == <<"a","r","g","o","p","r","o","j",".","i","o","/","v","1","a","l","p","h","a","1">>

\* manifest.isSupported(kind, apiVersion)
isSupported(kind, apiVersion) ==
    kind \in {"Application", "ApplicationSet", "AppProject"} /\ apiVersion = ArgoAPI

\* Parser.ParseFile over the discovered files: the documents parseNode
\* returns a Manifest for, in order
ParseFiles(docs) == SelectSeq(docs, LAMBDA d : isSupported(d.Kind, d.APIVersion))

\* A defect for comparison: the toggles are taken as given.
IncludeOptionsAsGiven(o) ==
    [apps |-> o.IncludeApplications, appsets |-> o.IncludeApplicationSets,
     projects |-> o.IncludeProjects]

\* Run, the toggles after the first statement
IncludeOptions(o) ==
    IF ~o.IncludeApplications /\ ~o.IncludeApplicationSets /\ ~o.IncludeProjects
    THEN [apps |-> TRUE, appsets |-> TRUE, projects |-> TRUE]
    ELSE [apps |-> o.IncludeApplications, appsets |-> o.IncludeApplicationSets,
          projects |-> o.IncludeProjects]

includeManifest(m, apps, appsets, projects) ==
    IF m.Kind = "Application" THEN apps
    ELSE IF m.Kind = "ApplicationSet" THEN appsets
    ELSE IF m.Kind = "AppProject" THEN projects
    ELSE FALSE

\* filepath.Rel(workdir, path) for an absolute workdir: the rest of a path
\* below it, an error for a relative path (the paths of the model are
\* relative or below the working directory)
RelPath(workdir, path) ==
    IF IsStrPrefix(workdir \o <<"/">>, path)
    THEN [path |-> SubSeq(path, Len(workdir) + 2, Len(path)), err |-> FALSE]
    ELSE [path |-> <<>>, err |-> TRUE]

\* Run, the body of the loop for an included manifest
Relative(workdir, m) ==
    IF workdir # <<>> /\ ~RelPath(workdir, m.FilePath).err
    THEN [m EXCEPT !.FilePath = RelPath(workdir, m.FilePath).path]
    ELSE m

RECURSIVE IncludeLoop(_, _, _, _)
IncludeLoop(t, workdir, manifests, k) ==
    IF k > Len(manifests) THEN <<>>
    ELSE (IF includeManifest(manifests[k], t.apps, t.appsets, t.projects)
          THEN << Relative(workdir, manifests[k]) >>
          ELSE <<>>)
         \o IncludeLoop(t, workdir, manifests, k + 1)

\* Run, from the toggles to the included slice
Included(o, docs) == IncludeLoop(IncludeOptions(o), o.workdir, ParseFiles(docs), 1)

MaxDocuments == 3

Workdir == <<"/","r","e","p","o">>
AbsApps == <<"/","r","e","p","o","/","a","p","p","s","/","a","p","p",".","y","a","m","l">>

DocumentPool ==
    { [Kind |-> "Application", APIVersion |-> ArgoAPI, FilePath |-> AbsApps],
      [Kind |-> "Application", APIVersion |-> ArgoAPI, FilePath |-> FileApps],
      [Kind |-> "ApplicationSet", APIVersion |-> ArgoAPI, FilePath |-> AbsApps],
      [Kind |-> "AppProject", APIVersion |-> ArgoAPI, FilePath |-> AbsApps],
      [Kind |-> "ConfigMap", APIVersion |-> <<"v","1">>, FilePath |-> AbsApps],
      [Kind |-> "Application", APIVersion |-> <<"v","1">>, FilePath |-> FileApps] }

InitInclude ==
    /\ parsed \in SeqsUpTo(DocumentPool, MaxDocuments)
    /\ toggles \in [IncludeApplications : BOOLEAN, IncludeApplicationSets : BOOLEAN,
                    IncludeProjects : BOOLEAN, workdir : {<<>>, Workdir}]
    /\ kept = NoResult
    /\ CoreIdle /\ RuleIdle /\ ProfileIdle /\ LoaderIdle

RunInclude ==
    /\ ~kept.done
    /\ kept' = [done |-> TRUE, included |-> Included(toggles, parsed)]
    /\ UNCHANGED <<parsed, toggles, ruleVars, profileVars, loaderVars, coreVars>>

NextInclude == RunInclude

SpecInclude == InitInclude /\ [][NextInclude]_vars

\* The toggle of a kind as the caller set it
ToggleOf(kind) ==
    IF kind = "Application" THEN toggles.IncludeApplications
    ELSE IF kind = "ApplicationSet" THEN toggles.IncludeApplicationSets
    ELSE toggles.IncludeProjects

AllOff ==
    ~toggles.IncludeApplications /\ ~toggles.IncludeApplicationSets /\ ~toggles.IncludeProjects

SupportedDocs == SelectSeq(parsed, LAMBDA d : isSupported(d.Kind, d.APIVersion))

KindsOf(ms) == [k \in 1..Len(ms) |-> ms[k].Kind]

\* C25: a parsed document is included exactly when the toggle of its kind
\* is on, and with all three toggles off every supported document is
\* included: the included documents are, in order, the supported ones
\* whose toggle is on, or all of them.
C25_KindFilter ==
    kept.done =>
        KindsOf(kept.included) =
            KindsOf(SelectSeq(SupportedDocs, LAMBDA d : AllOff \/ ToggleOf(d.Kind)))

C25_Witness ==
    /\ kept.done /\ AllOff
    /\ KindsOf(parsed) = <<"AppProject", "ConfigMap", "Application">>
    /\ KindsOf(kept.included) = <<"AppProject", "Application">>

-----------------------------------------------------------------------------
(* Plugin discovery: internal/plugin/rego/loader.go (NewLoader,            *)
(* DiscoverMetadata, Loader.Load) and runPluginsList of internal/cli       *)
(*                                                                         *)
(* The file system is [present, cwd]: the paths that exist below the       *)
(* working directory /w, and whether os.Getwd succeeds.  bundles is a      *)
(* directory with one module and one other file; b.rego is a module that   *)
(* does not compile.                                                       *)

Wd == <<"/","w">>
PathA == <<"a",".","r","e","g","o">>
PathB == <<"b",".","r","e","g","o">>
PathNotes == <<"n","o","t","e","s",".","t","x","t">>
PathBundles == <<"b","u","n","d","l","e","s">>
PathGone == <<"g","o","n","e",".","r","e","g","o">>

Join(dir, name) == IF name = <<>> THEN dir ELSE dir \o <<"/">> \o name

\* filepath.Abs(p) of a relative path
Abs(fs, p) ==
    IF fs.cwd THEN [path |-> Join(Wd, p), err |-> FALSE] ELSE [path |-> <<>>, err |-> TRUE]

\* the regular files below /w
AllFiles(fs) ==
    {Join(Wd, p) : p \in fs.present \ {PathBundles}}
    \cup (IF PathBundles \in fs.present
          THEN {Join(Wd, <<"b","u","n","d","l","e","s","/","e",".","r","e","g","o">>), Join(Wd, <<"b","u","n","d","l","e","s","/","r","e","a","d","m","e",".","m","d">>)}
          ELSE {})

\* os.Stat(abs)
Stat(fs, abs) ==
    IF abs = Wd \/ (abs = Join(Wd, PathBundles) /\ PathBundles \in fs.present) THEN "dir"
    ELSE IF abs \in AllFiles(fs) THEN "file"
    ELSE "absent"

\* filepath.WalkDir(abs, ...): the files below the directory
WalkDir(fs, abs) == {f \in AllFiles(fs) : IsStrPrefix(abs \o <<"/">>, f)}

HasSuffixRego(path) == IsStrSuffix(<<".","r","e","g","o">>, path)

\* NewLoader, the body of the loop once the path is absolute
AddResolved(fs, acc, abs) ==
    IF Stat(fs, abs) = "dir"
    THEN [acc EXCEPT !.files = @ \cup {f \in WalkDir(fs, abs) : HasSuffixRego(f)}]
    ELSE IF Stat(fs, abs) = "file"
    THEN (IF HasSuffixRego(abs) THEN [acc EXCEPT !.files = @ \cup {abs}] ELSE acc)
    ELSE [acc EXCEPT !.missing = Append(@, abs)]

\* NewLoader, the body of the loop
AddPath(fs, acc, p) ==
    IF p = <<>> THEN acc
    ELSE IF Abs(fs, p).err THEN acc
    ELSE AddResolved(fs, acc, Abs(fs, p).path)

RECURSIVE AddPaths(_, _, _, _)
AddPaths(fs, acc, paths, k) ==
    IF k > Len(paths) THEN acc ELSE AddPaths(fs, AddPath(fs, acc, paths[k]), paths, k + 1)

\* sort.Strings
RECURSIVE InsertString(_, _)
InsertString(sorted, x) ==
    IF sorted = <<>> THEN <<x>>
    ELSE IF StrLess(x, Head(sorted)) THEN <<x>> \o sorted
    ELSE <<Head(sorted)>> \o InsertString(Tail(sorted), x)

RECURSIVE SortStringsFrom(_, _, _)
SortStringsFrom(s, i, acc) ==
    IF i > Len(s) THEN acc ELSE SortStringsFrom(s, i + 1, InsertString(acc, s[i]))

SortStrings(s) == SortStringsFrom(s, 1, <<>>)

MinString(S) == CHOOSE x \in S : \A y \in S : x = y \/ StrLess(x, y)

RECURSIVE SortedStrings(_)
SortedStrings(S) ==
    IF S = {} THEN <<>> ELSE <<MinString(S)>> \o SortedStrings(S \ {MinString(S)})

\* NewLoader(paths...): &Loader{files, missing}
NewLoaderOf(acc) == [files |-> SortedStrings(acc.files), missing |-> SortStrings(acc.missing)]

NewLoader(fs, paths) == NewLoaderOf(AddPaths(fs, [files |-> {}, missing |-> <<>>], paths, 1))

\* loadFile(ctx, file): the module's rule ID, or an error
ModuleFails(file) == file = Join(Wd, PathB)
ModuleID(file) == IF file = Join(Wd, PathA) THEN RG002 ELSE RG001

JoinStrings(s) ==
    IF s = <<>> THEN <<>>
    ELSE LET RECURSIVE J(_)
             J(k) == IF k = Len(s) THEN s[k] ELSE s[k] \o <<",", " ">> \o J(k + 1)
         IN  J(1)

\* Loader.Load(ctx): [plugins, err]
Load(l) ==
    IF Len(l.missing) > 0
    THEN [plugins |-> <<>>, err |-> <<"m","i","s","s","i","n","g"," ","p","l","u","g","i","n"," ","p","a","t","h","s",":"," ">> \o JoinStrings(l.missing)]
    ELSE IF \E k \in 1..Len(l.files) : ModuleFails(l.files[k])
    THEN [plugins |-> <<>>, err |-> <<"l","o","a","d"," ","r","e","g","o"," ","p","l","u","g","i","n">>]
    ELSE [plugins |-> [k \in 1..Len(l.files) |-> [source |-> l.files[k], ID |-> ModuleID(l.files[k])]],
          err |-> NoErr]

RecordLess(a, b) ==
    IF a.ID = b.ID THEN StrLess(a.Source, b.Source) ELSE StrLess(a.ID, b.ID)

RECURSIVE InsertRecord(_, _)
InsertRecord(sorted, x) ==
    IF sorted = <<>> THEN <<x>>
    ELSE IF RecordLess(x, Head(sorted)) THEN <<x>> \o sorted
    ELSE <<Head(sorted)>> \o InsertRecord(Tail(sorted), x)

RECURSIVE SortRecords(_, _, _)
SortRecords(files, i, acc) ==
    IF i > Len(files) THEN acc
    ELSE SortRecords(files, i + 1,
                     InsertRecord(acc, [Source |-> files[i], ID |-> ModuleID(files[i])]))

\* DiscoverMetadata, after NewLoader
DiscoverWith(l) ==
    IF \E k \in 1..Len(l.files) : ModuleFails(l.files[k])
    THEN [records |-> <<>>, missing |-> l.missing, err |-> <<"l","o","a","d"," ","r","e","g","o"," ","p","l","u","g","i","n">>]
    ELSE [records |-> SortRecords(l.files, 1, <<>>), missing |-> l.missing, err |-> NoErr]

\* DiscoverMetadata(ctx, paths...): [records, missing, err]
DiscoverMetadata(fs, paths) == DiscoverWith(NewLoader(fs, paths))

\* runPluginsList, one root after ResolvePath: the exit code 2, or the rows
ListRoot(fs, resolved) ==
    IF Stat(fs, resolved) = "absent" THEN [code |-> 2, rows |-> <<>>]
    ELSE IF DiscoverMetadata(fs, <<resolved>>).err # NoErr THEN [code |-> 2, rows |-> <<>>]
    ELSE IF Len(DiscoverMetadata(fs, <<resolved>>).missing) > 0 THEN [code |-> 2, rows |-> <<>>]
    ELSE [code |-> 0, rows |-> DiscoverMetadata(fs, <<resolved>>).records]

RECURSIVE ListRoots(_, _, _, _)
ListRoots(fs, roots, k, rows) ==
    IF k > Len(roots) THEN [code |-> 0, rows |-> rows]
    ELSE IF ListRoot(fs, Join(Wd, roots[k])).code # 0 THEN [code |-> 2, rows |-> <<>>]
    ELSE ListRoots(fs, roots, k + 1, rows \o ListRoot(fs, Join(Wd, roots[k])).rows)

\* runPluginsList with --dir roots: the exit code and the rules listed
runPluginsList(fs, roots) ==
    IF ~fs.cwd THEN [code |-> 2, rows |-> <<>>]
    ELSE ListRoots(fs, IF roots = <<>> THEN << PathBundles >> ELSE roots, 1, <<>>)

MaxPaths == 2

PathPool == { PathA, PathB, PathNotes, PathBundles, PathGone, <<>> }

FileSystemPool ==
    [present : SUBSET {PathA, PathB, PathNotes, PathBundles}, cwd : BOOLEAN]

InitLoader ==
    /\ fsys \in FileSystemPool
    /\ lpaths \in SeqsUpTo(PathPool, MaxPaths)
    /\ lresult = NoResult
    /\ CoreIdle /\ RuleIdle /\ ProfileIdle /\ IncludeIdle

\* NewLoader(paths...).Load(ctx), as cli.Execute calls it
CallLoad ==
    /\ ~lresult.done
    /\ lresult' = [done |-> TRUE, op |-> "Load", out |-> Load(NewLoader(fsys, lpaths))]
    /\ UNCHANGED <<fsys, lpaths, ruleVars, profileVars, includeVars, coreVars>>

CallDiscoverMetadata ==
    /\ ~lresult.done
    /\ lresult' = [done |-> TRUE, op |-> "DiscoverMetadata",
                   out |-> DiscoverMetadata(fsys, lpaths)]
    /\ UNCHANGED <<fsys, lpaths, ruleVars, profileVars, includeVars, coreVars>>

CallPluginsList ==
    /\ ~lresult.done
    /\ lresult' = [done |-> TRUE, op |-> "plugins list", out |-> runPluginsList(fsys, lpaths)]
    /\ UNCHANGED <<fsys, lpaths, ruleVars, profileVars, includeVars, coreVars>>

NextLoader == CallLoad \/ CallDiscoverMetadata \/ CallPluginsList

SpecLoader == InitLoader /\ [][NextLoader]_vars

\* The given paths at which nothing is found, and the modules that the
\* given paths name or contain
GivenPaths == IF lresult.op = "plugins list" /\ lpaths = <<>> THEN << PathBundles >> ELSE lpaths

Unresolvable ==
    {k \in 1..Len(GivenPaths) :
        GivenPaths[k] # <<>> /\ Stat(fsys, Join(Wd, GivenPaths[k])) = "absent"}

ResolvableModules ==
    UNION {{f \in AllFiles(fsys) :
              /\ GivenPaths[k] # <<>> /\ HasSuffixRego(f)
              /\ f = Join(Wd, GivenPaths[k]) \/ IsStrPrefix(Join(Wd, GivenPaths[k]) \o <<"/">>, f)} :
           k \in 1..Len(GivenPaths)}

AllModulesLoad == \A f \in ResolvableModules : ~ModuleFails(f)

LoadFailsOnMissing ==
    (lresult.op = "Load" /\ Unresolvable # {}) => lresult.out.err # NoErr

DiscoverTolerates ==
    (lresult.op = "DiscoverMetadata" /\ AllModulesLoad) =>
        /\ lresult.out.err = NoErr
        /\ {lresult.out.records[k].Source : k \in 1..Len(lresult.out.records)}
               = ResolvableModules
        /\ Range(lresult.out.missing) = {Join(Wd, GivenPaths[k]) : k \in Unresolvable}

ListTolerates ==
    (lresult.op = "plugins list" /\ AllModulesLoad /\ <<>> \notin Range(lpaths)) =>
        /\ lresult.out.code = 0
        /\ {lresult.out.rows[k].Source : k \in 1..Len(lresult.out.rows)} = ResolvableModules

\* C26: a given path that cannot be resolved is never skipped silently:
\* Load fails whenever one is missing, while DiscoverMetadata and
\* `plugins list` tolerate it, returning the records of the resolvable
\* modules and reporting the missing paths instead of failing.
C26_MissingPathsNeverSilent ==
    lresult.done => (LoadFailsOnMissing /\ DiscoverTolerates /\ ListTolerates)

\* ---- C27 ----
\* What Renderer.Render returns for manifest m when the cache is disabled
RenderUncached(m) ==
    IF renderLookup(opts.Config, FALSE, m, <<>>).kind = "exec"
    THEN renderKustomize(opts.Config, m)
    ELSE <<>>

\* The goroutine of manifest i has validated and rendered it without error.
Rendered(i) == pc[i] = "append"

\* C27: render caching is transparent: with the cache enabled every
\* document gets the render findings it gets with the cache disabled,
\* however the goroutines consult and populate the cache.
C27_RenderCacheTransparent ==
    \A i \in 1..Len(included) :
        (opts.Render /\ opts.CacheEnabled /\ Rendered(i)) =>
            localFindings[i]
                = SchemaValidate(included[i]).findings \o RenderUncached(included[i])

\* ---- C28 ----
\* The goroutines that have appended their findings: without an error a
\* goroutine ends only after the append.
Appended == {i \in 1..Len(included) : pc[i] = "done"}

Orderings(S) ==
    {s \in [1..Cardinality(S) -> S] : \A j, k \in 1..Cardinality(S) : s[j] = s[k] => j = k}

RECURSIVE ConcatLocal(_, _)
ConcatLocal(s, k) ==
    IF k > Len(s) THEN <<>> ELSE localFindings[s[k]] \o ConcatLocal(s, k + 1)

FanOutEnded == \A i \in 1..Len(included) : pc[i] = "done"

\* C28: no finding is lost or duplicated by the concurrent collection: as
\* long as no goroutine failed, the shared list is the findings of the
\* goroutines that have appended, each appended once and contiguously, in
\* the order of their appends; so it is when the fan-out ends.
C28_NoFindingLostOrDuplicated ==
    (~errFlag /\ ~report.done) =>
        \E s \in Orderings(Appended) : runFindings = ConcatLocal(s, 1)

C28_Witness ==
    /\ Len(included) = 2 /\ FanOutEnded /\ ~errFlag /\ ~report.done
    /\ localFindings[1] # <<>> /\ localFindings[2] # <<>>
    /\ localFindings[1] # localFindings[2]
    /\ runFindings = localFindings[2] \o localFindings[1]

\* ---- C29 ----
\* The fan-out under fair scheduling.  Every goroutine that can take a step
\* eventually takes one (the Go scheduler starves no runnable goroutine, and
\* the schema validator and the external render command terminate), and Run
\* continues once wg.Wait() can return.
MaxFairManifests == 3

\* Two applications on the broken overlay and the document the schema
\* library fails on
FairManifestPool == {m \in ManifestPool : m.kustomize = BrokenOverlay \/ m.schema = "error"}

FairConfigPool ==
    { [Rules |-> EmptyRules, Overrides |-> <<>>],
      [Rules |-> EmptyRules,
       Overrides |-> << [Pattern |-> PatApps,
                         Rules |-> (RENDER_KUSTOMIZE :>
                                      [Enabled |-> "nil", Severity |-> Fatal])] >>] }

InitFair ==
    /\ included \in {ms \in SeqsUpTo(FairManifestPool, MaxFairManifests) : Distinct(ms)}
    /\ opts \in RunOptions(FairConfigPool, {<<>>}, {DryRunOff}, {<<>>}, {NilBaseline}, {0})
    /\ pc = [i \in 1..Len(included) |-> "start"]
    /\ sem = 0
    /\ errFlag = FALSE
    /\ firstErr = NoErr
    /\ cache = <<>>
    /\ localFindings = [i \in 1..Len(included) |-> <<>>]
    /\ runFindings = <<>>
    /\ report = NoResult
    /\ ResolveIdle /\ WaiverIdle /\ BaselineIdle /\ CLIIdle /\ LibIdle

\* the steps of the goroutine of manifest i
Go(i) ==
    /\ i \in 1..Len(included)
    /\ \/ GoStart(i) \/ GoAcquire(i) \/ GoRecheck(i) \/ GoValidate(i)
       \/ GoRender(i) \/ GoRendered(i) \/ GoAppend(i)

\* wg.Wait() can return and Run has not returned: the guard of RunReturn
WaitReturns == FanOutEnded /\ ~report.done

\* Weak fairness of every goroutine, and of the goroutine that called Run:
\* RunReturn is its only step, and that step is enabled exactly when
\* WaitReturns holds.
Fairness ==
    /\ \A i \in 1..MaxFairManifests : WF_vars(Go(i))
    /\ WaitReturns ~> report.done

SpecFair == InitFair /\ [][Next]_vars /\ Fairness

\* C29: the fan-out terminates: under fair scheduling every goroutine
\* eventually finishes, all slots of the semaphore are released, also after
\* an early return, and Run returns.
C29_FanOutTerminates == <>(FanOutEnded /\ sem = 0 /\ report.done)

C29_Witness ==
    /\ Len(included) = MaxFairManifests /\ maxParallel < Len(included)
    /\ FanOutEnded /\ sem = 0 /\ report.done
    /\ errFlag /\ \E i \in 1..Len(included) : localFindings[i] # <<>>

\* ---- C30 ----
\* C30: in every Report returned without error the rule ID of each finding,
\* in Findings and in Suppressed, has an entry in RuleIndex.
C30_RuleIndexCoversFindings ==
    (report.done /\ report.err = NoErr) =>
        /\ \A k \in 1..Len(report.Findings) : report.Findings[k].RuleID \in report.RuleIndex
        /\ \A k \in 1..Len(report.Suppressed) : report.Suppressed[k].RuleID \in report.RuleIndex

-----------------------------------------------------------------------------
(* cli.Execute: internal/cli/cli.go, the baseline flags                    *)

\* types.SeverityOrder; a severity that is no key of the map reads as 0
SeverityOrder(s) == IF s = SeverityError THEN 2 ELSE IF s = SeverityWarn THEN 1 ELSE 0

\* types.HigherSeverity
HigherSeverity(a, b) == IF SeverityOrder(a) >= SeverityOrder(b) THEN a ELSE b

\* output.HighestSeverity
RECURSIVE HighestFrom(_, _, _)
HighestFrom(fs, i, highest) ==
    IF i > Len(fs) THEN highest
    ELSE HighestFrom(fs, i + 1, HigherSeverity(highest, fs[i].Severity))

HighestSeverity(fs) == HighestFrom(fs, 1, SeverityInfo)

\* The exit code of Execute after a run, with the default threshold error.
ExitCode(fs) ==
    IF SeverityOrder(HighestSeverity(fs)) >= SeverityOrder(SeverityError) /\ Len(fs) > 0
    THEN 1 ELSE 0

\* The longest finding list of the target and the number of executions.
MaxTargetFindings == 2
MaxExecutions == 3

TargetFindingPool ==
    { RuleFinding(AR001, FileApps, 1),
      RuleFinding(AR001, FileApps, 2),
      [RuleFinding(AR002, FileManifests, 1) EXCEPT !.Severity = SeverityWarn] }

InitCLI ==
    /\ target \in SeqsUpTo(TargetFindingPool, MaxTargetFindings)
    /\ runs = <<>>
    /\ bfile \in {f \in BaselineFilePool : f.kind \in {"absent", "garbage"} \/ Len(f.data) = 2}
    /\ baseline = NilBaseline
    /\ bwrite = NoResult
    /\ bcall = NoResult
    /\ bnow = 3 * DayTicks
    /\ ResolveIdle /\ WaiverIdle /\ RunIdle /\ LibIdle

\* One execution of the command over the target, with or without
\* --baseline P and --write-baseline P (one path P), and --baseline-aging:
\* LoadBaseline, Runner.Run, WriteBaseline(report.Suppressed), exit code.  The
\* configuration has no waivers.  The record keeps the file as the execution
\* leaves it.
ExecuteRun(flags, rep) ==
    /\ bfile' = IF flags.writeBaseline THEN WriteBaseline(rep.Suppressed, bnow) ELSE bfile
    /\ runs' = Append(runs, [flags |-> flags, exit |-> ExitCode(rep.Findings),
                             Findings |-> rep.Findings, Suppressed |-> rep.Suppressed,
                             file |-> bfile'])

ExecuteLoaded(flags, loaded) ==
    IF loaded.err # NoErr
    THEN /\ runs' = Append(runs, [flags |-> flags, exit |-> 2, Findings |-> <<>>,
                                  Suppressed |-> <<>>, file |-> bfile])
         /\ bfile' = bfile
    ELSE ExecuteRun(flags, RunReport(<<>>, target, loaded.b, flags.baselineAging, bnow))

Execute ==
    /\ Len(runs) < MaxExecutions
    /\ \E baselinePath \in BOOLEAN, writeBaseline \in BOOLEAN, baselineAging \in 0..MaxAgingDays :
          ExecuteLoaded([baseline |-> baselinePath, writeBaseline |-> writeBaseline,
                         baselineAging |-> baselineAging],
                        IF baselinePath THEN LoadBaseline(bfile)
                        ELSE [b |-> NilBaseline, err |-> NoErr])
    /\ UNCHANGED <<target, baseline, bwrite, bcall, bnow, resolveVars, waiverVars, runVars, libVars>>

NextCLI == Execute

SpecCLI == InitCLI /\ [][NextCLI]_vars

\* ---- C9 ----
\* execution n ran with --write-baseline and without --baseline, and the
\* next execution ran with --baseline
WroteThenUsed(n) ==
    /\ n + 1 <= Len(runs)
    /\ runs[n].flags.writeBaseline /\ ~runs[n].flags.baseline /\ runs[n].exit # 2
    /\ runs[n + 1].flags.baseline /\ runs[n + 1].exit # 2

FileHasEntryFor(file, x) ==
    /\ file.kind = "json"
    /\ \E k \in 1..Len(file.data) : SameFileAndRule(UnmarshalEntry(file.data[k]), x)

\* C9: after an execution with --write-baseline P and no --baseline that
\* reported the findings X, P holds an entry for every (rule, file) pair of X,
\* and the execution with --baseline P that follows reports none of X.
C9_WriteBaselineRecordsFindings ==
    \A n \in 1..Len(runs) :
        WroteThenUsed(n) =>
            \A x \in Range(runs[n].Findings) :
                /\ FileHasEntryFor(runs[n].file, x)
                /\ x \notin Range(runs[n + 1].Findings)

=============================================================================
